---- MODULE Spec2Model ----
(***************************************************************************)
(* A model of the teanga layered-annotation data model: the corpus schema  *)
(* (Corpus.add_layer_meta), document mutation (Document.__setitem__,       *)
(* Document.add_layers, validate_value) and index resolution               *)
(* (Layer.indexes, Document.text_for_layer).                               *)
(*                                                                         *)
(* Python dicts are functions whose DOMAIN is the set of keys.  Python     *)
(* values are tagged records so that strings, integers and lists can be    *)
(* compared.  A character string is the sequence of its code points.       *)
(*                                                                         *)
(* meta is the schema, layers the layer map of the document under study,   *)
(* op the last call and its outcome, docs the documents of a corpus        *)
(* (Corpus._docs) and digest the encoded SHA-256 digest of each hash input.*)
(***************************************************************************)
EXTENDS Integers, Sequences, FiniteSets, TLC

VARIABLES meta, layers, op, docs, digest

vars == <<meta, layers, op, docs, digest>>

(***************************************************************************)
(* Bounds of the model.                                                    *)
(***************************************************************************)
\* lists offered as layer values have at most MaxLen entries
MaxLen == 2
\* texts offered for character layers have at most MaxText characters
MaxText == 2

(***************************************************************************)
(* Python values.                                                          *)
(***************************************************************************)
\* None, for the optional string fields of a LayerDesc (base, data, target)
None == "<None>"

\* an integer (numbers.Integral) and a string (str) inside a layer value
IntItem(n) == [k |-> "int", i |-> n, s |-> ""]
StrItem(x) == [k |-> "str", i |-> 0, s |-> x]

\* one element of a list value: a bare item, or a list (or tuple) of items
Bare(it) == [list |-> FALSE, items |-> <<it>>]
ListOf(its) == [list |-> TRUE, items |-> its]

\* a value handed to __setitem__: None, a string, or a list of elements
NoneValue == [k |-> "none", text |-> <<>>, entries |-> <<>>]
StrValue(t) == [k |-> "str", text |-> t, entries |-> <<>>]
ListValue(es) == [k |-> "list", text |-> <<>>, entries |-> es]

\* LayerDesc(layer_type, base, data, link_types, target, default, meta)
LayerDesc(layer_type, base, data, target, default) ==
    [layer_type |-> layer_type, base |-> base, data |-> data,
     target |-> target, default |-> default]

\* the closed enumeration used by the schemas whose data is a list of strings
EnumValues == {"A", "B"}

\* Python's seq[i]: defined for -len <= i < len, negative i counts from the end
PyIndexOk(seq, i) == -Len(seq) <= i /\ i < Len(seq)
PyAt(seq, i) == IF i >= 0 THEN seq[i + 1] ELSE seq[Len(seq) + i + 1]

\* Python's seq[start:end]: both ends are clamped, negative ones count from the end
PyClamp(n, i) == IF i < 0 THEN (IF n + i < 0 THEN 0 ELSE n + i)
                          ELSE (IF i > n THEN n ELSE i)
PySlice(seq, start, end) ==
    SubSeq(seq, PyClamp(Len(seq), start) + 1, PyClamp(Len(seq), end))

(***************************************************************************)
(* validate_value(value, index_length): the normalised element, or an      *)
(* exception (ok = FALSE).  An IndexError of value[i] is an exception too. *)
(***************************************************************************)
IsInt(it) == it.k = "int"
IsStr(it) == it.k = "str"

Raise(e) == [ok |-> FALSE, val |-> e]
Return(e) == [ok |-> TRUE, val |-> e]

validate_bare(value, index_length) ==
    IF index_length >= 2 THEN Raise(value)
    ELSE IF index_length = 1 /\ ~IsInt(value.items[1]) THEN Raise(value)
    ELSE IF index_length = 0 /\ ~IsStr(value.items[1]) /\ ~IsInt(value.items[1])
         THEN Raise(value)
    ELSE Return(value)

validate_list(value, index_length) ==
    LET v == value.items
        n == Len(v)
    IN  IF \E i \in 1..index_length : i > n \/ ~IsInt(v[i]) THEN Raise(value)
        ELSE IF n = 1 THEN
            (IF ~IsStr(v[1]) /\ ~IsInt(v[1]) THEN Raise(value)
             ELSE Return(Bare(v[1])))
        ELSE IF n = index_length THEN Return(value)
        ELSE IF n = index_length + 1 THEN
            (IF ~IsStr(v[index_length + 1]) /\ ~IsInt(v[index_length + 1])
             THEN Raise(value) ELSE Return(value))
        ELSE IF n = index_length + 2 THEN
            (IF ~IsInt(v[index_length + 1]) \/ ~IsStr(v[index_length + 2])
             THEN Raise(value) ELSE Return(value))
        ELSE Raise(value)

validate_value(value, index_length) ==
    IF ~value.list THEN validate_bare(value, index_length)
    ELSE validate_list(value, index_length)

\* [validate_value(v, n) for v in value]: raises when one element raises
validate_all(entries, index_length) ==
    IF \E i \in 1..Len(entries) : ~validate_value(entries[i], index_length).ok
    THEN Raise(<<>>)
    ELSE Return([i \in 1..Len(entries) |->
                     validate_value(entries[i], index_length).val])

(***************************************************************************)
(* Corpus.add_layer_meta(name, layer_type, base, data, link_types, target, *)
(* default, meta) of a corpus without a database (self._pyo3 is None).     *)
(* The result is the schema after the call and whether the call raised.    *)
(***************************************************************************)
MetaRaised(m, why) == [ok |-> FALSE, why |-> why, meta |-> m]
MetaStored(m, name, desc) ==
    [ok |-> TRUE, why |-> "",
     meta |-> [n \in DOMAIN m \cup {name} |-> IF n = name THEN desc ELSE m[n]]]

LayerTypes == {"characters", "seq", "span", "div", "element"}

\* a variant that replaces the descriptor of a name already defined
add_layer_meta_overwrite(m, name, layer_type, base, data, target, default) ==
    IF name = None THEN MetaRaised(m, "no name")
    ELSE IF layer_type \notin LayerTypes THEN MetaRaised(m, "invalid type")
    ELSE IF layer_type = "characters" /\ base # None /\ base # ""
         THEN MetaRaised(m, "characters with base")
    ELSE IF layer_type = "characters"
         THEN MetaStored(m, name, LayerDesc("characters", None, None, None, NoneValue))
    ELSE IF base = None THEN MetaRaised(m, "no base")
    ELSE MetaStored(m, name, LayerDesc(layer_type, base, data, target, default))

add_layer_meta(m, name, layer_type, base, data, target, default) ==
    IF name = None THEN MetaRaised(m, "no name")
    ELSE IF name \in DOMAIN m THEN MetaRaised(m, "exists")
    ELSE IF layer_type \notin LayerTypes THEN MetaRaised(m, "invalid type")
    ELSE IF layer_type = "characters" /\ base # None /\ base # ""
         THEN MetaRaised(m, "characters with base")
    ELSE IF layer_type = "characters"
         THEN MetaStored(m, name, LayerDesc("characters", None, None, None, NoneValue))
    ELSE IF base = None THEN MetaRaised(m, "no base")
    ELSE MetaStored(m, name, LayerDesc(layer_type, base, data, target, default))

(***************************************************************************)
(* The layer objects of document.py.  A layer is its class and its raw     *)
(* content: _text for a CharacterLayer, seq or _data for the others.       *)
(***************************************************************************)
CharacterLayer(text) == [cls |-> "characters", text |-> text, data |-> <<>>]
DataLayer(cls, data) == [cls |-> cls, text |-> <<>>, data |-> data]

\* Layer.__len__
LayerLen(layer) ==
    IF layer.cls = "characters" THEN Len(layer.text) ELSE Len(layer.data)

\* the checks of SpanLayer.__init__, DivLayer.__init__ and ElementLayer.__init__;
\* subscripting a bare integer (span[0]) is a TypeError
SpanLayerInit(spans) ==
    \A i \in 1..Len(spans) :
        /\ spans[i].list
        /\ Len(spans[i].items) >= 2
        /\ IsInt(spans[i].items[1])
        /\ IsInt(spans[i].items[2])

DivLayerInit(spans) ==
    \A i \in 1..Len(spans) :
        \/ ~spans[i].list /\ IsInt(spans[i].items[1])
        \/ spans[i].list /\ Len(spans[i].items) >= 1 /\ IsInt(spans[i].items[1])

ElementLayerInit(spans) ==
    \A i \in 1..Len(spans) :
        /\ spans[i].list
        /\ Len(spans[i].items) >= 1
        /\ IsInt(spans[i].items[1])

\* self.layers[name] = layer
Store(l, name, layer) ==
    [n \in DOMAIN l \cup {name} |-> IF n = name THEN layer ELSE l[n]]

(***************************************************************************)
(* Document.__setitem__(name, value).  The result is the layer map after   *)
(* the call, whether the call raised, and the raise statement reached.     *)
(* The document is not attached to a corpus (Document.__init__ leaves      *)
(* self.corpus None), so the update_doc branch is not taken.               *)
(***************************************************************************)
Raised(l, why) == [ok |-> FALSE, why |-> why, layers |-> l]
Stored(l, name, layer) == [ok |-> TRUE, why |-> "", layers |-> Store(l, name, layer)]

\* len() of the base layer as the seq branch computes it
base_layer_len(m, l, name) ==
    IF m[name].base \in DOMAIN l THEN LayerLen(l[m[name].base])
    ELSE Len(m[m[name].base].default.entries)

set_characters(l, name, value) == Stored(l, name, CharacterLayer(value.text))

\* a variant that stores the layer before it compares the lengths
set_seq_store_first(m, l, name, value) ==
    IF value.k # "list" THEN Raised(l, "not a list")
    ELSE LET v == validate_all(value.entries, 0) IN
         IF ~v.ok THEN Raised(l, "bad value")
         ELSE IF Len(v.val) # base_layer_len(m, l, name)
              THEN Raised(Store(l, name, DataLayer("seq", v.val)), "length")
         ELSE Stored(l, name, DataLayer("seq", v.val))

set_seq(m, l, name, value) ==
    IF value.k # "list" THEN Raised(l, "not a list")
    ELSE LET v == validate_all(value.entries, 0) IN
         IF ~v.ok THEN Raised(l, "bad value")
         ELSE IF Len(v.val) # base_layer_len(m, l, name) THEN Raised(l, "length")
         ELSE Stored(l, name, DataLayer("seq", v.val))

set_span(l, name, value) ==
    IF value.k # "list" THEN Raised(l, "not a list")
    ELSE LET v == validate_all(value.entries, 2) IN
         IF ~v.ok THEN Raised(l, "bad value")
         ELSE IF ~SpanLayerInit(v.val) THEN Raised(l, "bad span data")
         ELSE Stored(l, name, DataLayer("span", v.val))

set_div(l, name, value) ==
    IF value.k # "list" THEN Raised(l, "not a list")
    ELSE LET v == validate_all(value.entries, 1) IN
         IF ~v.ok THEN Raised(l, "bad value")
         ELSE IF ~DivLayerInit(v.val) THEN Raised(l, "bad span data")
         ELSE Stored(l, name, DataLayer("div", v.val))

set_element(l, name, value) ==
    IF value.k # "list" THEN Raised(l, "not a list")
    ELSE LET v == validate_all(value.entries, 1) IN
         IF ~v.ok THEN Raised(l, "bad value")
         ELSE IF ~ElementLayerInit(v.val) THEN Raised(l, "bad span data")
         ELSE Stored(l, name, DataLayer("element", v.val))

\* value = self._meta[name].default when value is None and a default exists
with_default(m, name, value) ==
    IF value = NoneValue /\ m[name].default # NoneValue
    THEN m[name].default ELSE value

setitem(m, l, name, value0) ==
    IF name \notin DOMAIN m THEN Raised(l, "unknown layer")
    ELSE LET value == with_default(m, name, value0)
             d == m[name]
         IN
         IF d.layer_type = None THEN Raised(l, "no layer type")
         ELSE IF d.layer_type \notin LayerTypes THEN Raised(l, "invalid layer type")
         ELSE IF d.layer_type = "characters" THEN set_characters(l, name, value)
         ELSE IF d.base = None THEN Raised(l, "no base")
         ELSE IF d.base \notin DOMAIN m THEN Raised(l, "non-existent base")
         ELSE IF d.base \notin DOMAIN l /\ m[d.base].default = NoneValue
              THEN Raised(l, "base absent")
         ELSE IF d.layer_type = "seq" THEN set_seq(m, l, name, value)
         ELSE IF d.layer_type = "span" THEN set_span(l, name, value)
         ELSE IF d.layer_type = "div" THEN set_div(l, name, value)
         ELSE set_element(l, name, value)

(***************************************************************************)
(* Document.add_layers(layers).  order is the order in which the for loop  *)
(* visits the keys of the set to_add.  The result is the layer map after   *)
(* the call and how the call ended: it returned, it raised (missing is the *)
(* base named by the exception of add_layers itself, None when the         *)
(* exception is the one of __setitem__), or its while loop never ends.     *)
(***************************************************************************)
\* added, before the loop: the layers present and the defaulted ones not given
added_before(m, l, given) ==
    DOMAIN l \cup {layer \in DOMAIN m :
                      layer \notin DOMAIN given /\ m[layer].default # NoneValue}

AddState(l, added, to_add, end, missing) ==
    [layers |-> l, added |-> added, to_add |-> to_add, end |-> end,
     missing |-> missing]

\* the body of the for loop, for one name of the copy of to_add
add_one(m, given, st, name) ==
    IF name \notin DOMAIN m THEN [st EXCEPT !.end = "raise"]
    ELSE IF m[name].base = None \/ m[name].base \in st.added THEN
        LET r == setitem(m, st.layers, name, given[name]) IN
        IF r.ok THEN AddState(r.layers, st.added \cup {name},
                              st.to_add \ {name}, "run", None)
        ELSE AddState(r.layers, st.added, st.to_add, "raise", None)
    ELSE IF m[name].base \notin DOMAIN given /\ m[name].base \notin st.added
         THEN AddState(st.layers, st.added, st.to_add, "raise", m[name].base)
    ELSE st

\* for name in to_add.copy(), the names left to visit being todo
RECURSIVE add_pass(_, _, _, _)
add_pass(m, given, st, todo) ==
    IF todo = <<>> \/ st.end # "run" THEN st
    ELSE add_pass(m, given,
                  IF Head(todo) \in st.to_add THEN add_one(m, given, st, Head(todo))
                  ELSE st,
                  Tail(todo))

\* while len(to_add) > 0: a pass that adds nothing and raises nothing is
\* followed by an identical pass, for ever
RECURSIVE add_loop(_, _, _, _, _)
add_loop(m, given, st, order, passes) ==
    IF st.end # "run" THEN [st |-> st, passes |-> passes]
    ELSE IF st.to_add = {} THEN [st |-> [st EXCEPT !.end = "return"], passes |-> passes]
    ELSE LET after == add_pass(m, given, st, order) IN
         IF after = st THEN [st |-> [st EXCEPT !.end = "loop"], passes |-> passes]
         ELSE add_loop(m, given, after, order, passes + 1)

add_layers(m, l, given, order) ==
    add_loop(m, given,
             AddState(l, added_before(m, l, given), DOMAIN given, "run", None),
             order, 0)

(***************************************************************************)
(* Index resolution: Layer.indexes(layer) of the five layer classes.  The  *)
(* result is the list of (start, end) pairs, or an exception (ok = FALSE:  *)
(* KeyError of self._doc.layers[...], IndexError of subindexes[...],       *)
(* TypeError, the "not a sublayer" exception, RecursionError).  typed is   *)
(* FALSE when the pairs returned hold list entries instead of integers;    *)
(* idx then holds the first index of each such entry.                      *)
(***************************************************************************)
IdxRaise == [ok |-> FALSE, typed |-> TRUE, idx |-> <<>>]
IdxReturn(typed, idx) == [ok |-> TRUE, typed |-> typed, idx |-> idx]

\* _1st_idx(d)
first_idx(d) == d.items[1].i

\* list(zip(range(n), range(1, n + 1)))
unit_indexes(n) == IdxReturn(TRUE, [j \in 1..n |-> <<j - 1, j>>])

\* [(s[0], s[1]) for s in self._data]
span_base_indexes(data) ==
    IdxReturn(TRUE, [j \in 1..Len(data) |-> <<data[j].items[1].i, data[j].items[2].i>>])

\* [(subindexes[s[0]][0], subindexes[s[1]-1][1]) for s in self._data]
span_sub_indexes(data, sub) ==
    IF \E j \in 1..Len(data) :
           \/ ~PyIndexOk(sub.idx, data[j].items[1].i)
           \/ ~PyIndexOk(sub.idx, data[j].items[2].i - 1)
    THEN IdxRaise
    ELSE IdxReturn(sub.typed,
            [j \in 1..Len(data) |->
                <<PyAt(sub.idx, data[j].items[1].i)[1],
                  PyAt(sub.idx, data[j].items[2].i - 1)[2]>>])

\* list(pairwise(chain(starts, [n])))
pairwise_to(starts, n) ==
    [j \in 1..Len(starts) |->
        <<starts[j], IF j < Len(starts) THEN starts[j + 1] ELSE n>>]

\* list(pairwise(chain((s for s in self._data), [len(base)])))
div_base_indexes(data, base_len) ==
    IdxReturn(\A j \in 1..Len(data) : ~data[j].list,
              pairwise_to([j \in 1..Len(data) |-> first_idx(data[j])], base_len))

\* list(pairwise(chain((subindexes[s][0] for s in self._data), [len(layer)])))
div_sub_indexes(data, sub, layer_len) ==
    IF \E j \in 1..Len(data) :
           data[j].list \/ ~PyIndexOk(sub.idx, first_idx(data[j]))
    THEN IdxRaise
    ELSE IdxReturn(sub.typed,
            pairwise_to([j \in 1..Len(data) |->
                            PyAt(sub.idx, first_idx(data[j]))[1]], layer_len))

\* [(_1st_idx(s), _1st_idx(s) + 1) for s in self._data]
element_base_indexes(data) ==
    IdxReturn(TRUE,
        [j \in 1..Len(data) |-> <<first_idx(data[j]), first_idx(data[j]) + 1>>])

\* [subindexes[_1st_idx(s)] for s in self._data]
element_sub_indexes(data, sub) ==
    IF \E j \in 1..Len(data) : ~PyIndexOk(sub.idx, first_idx(data[j]))
    THEN IdxRaise
    ELSE IdxReturn(sub.typed,
            [j \in 1..Len(data) |-> PyAt(sub.idx, first_idx(data[j]))])

\* a variant in which a Seq layer returns its own positions
seq_own_indexes(sub) == unit_indexes(Len(sub.idx))

\* what a Seq layer returns for a layer other than itself
seq_sub_indexes(sub) == sub

\* l[name].indexes(layer); depth counts the nested calls, and a chain of calls
\* longer than the schema is a cycle of bases, which ends in a RecursionError
RECURSIVE indexes_at(_, _, _, _, _)
indexes_at(m, l, name, layer, depth) ==
    LET self == l[name]
        base == m[name].base
        sub == indexes_at(m, l, base, layer, depth + 1)
    IN
    IF depth > Cardinality(DOMAIN m) THEN IdxRaise
    ELSE IF self.cls = "characters" THEN
        (IF layer # name THEN IdxRaise ELSE unit_indexes(Len(self.text)))
    ELSE IF layer = name THEN unit_indexes(Len(self.data))
    ELSE IF self.cls = "seq" THEN
        (IF base \notin DOMAIN l THEN IdxRaise ELSE seq_sub_indexes(sub))
    ELSE IF self.cls = "span" THEN
        (IF layer = base THEN span_base_indexes(self.data)
         ELSE IF base \notin DOMAIN l THEN IdxRaise
         ELSE IF ~sub.ok THEN IdxRaise
         ELSE span_sub_indexes(self.data, sub))
    ELSE IF self.cls = "div" THEN
        (IF base \notin DOMAIN l THEN IdxRaise
         ELSE IF layer = base THEN div_base_indexes(self.data, LayerLen(l[base]))
         ELSE IF ~sub.ok THEN IdxRaise
         ELSE IF layer \notin DOMAIN l THEN IdxRaise
         ELSE div_sub_indexes(self.data, sub, LayerLen(l[layer])))
    ELSE
        (IF layer = base THEN element_base_indexes(self.data)
         ELSE IF base \notin DOMAIN l THEN IdxRaise
         ELSE IF ~sub.ok THEN IdxRaise
         ELSE element_sub_indexes(self.data, sub))

indexes(m, l, name, layer) == indexes_at(m, l, name, layer, 0)

(***************************************************************************)
(* Document.text_for_layer(layer_name).                                    *)
(***************************************************************************)
\* the while loop that follows base until a characters layer: the layer found,
\* a KeyError (a base that is not in the schema), or a loop that never ends
RECURSIVE text_layer_of(_, _, _)
text_layer_of(m, text_layer, steps) ==
    IF text_layer \notin DOMAIN m THEN [end |-> "KeyError", name |-> text_layer]
    ELSE IF m[text_layer].layer_type = "characters"
         THEN [end |-> "found", name |-> text_layer]
    ELSE IF steps > Cardinality(DOMAIN m) THEN [end |-> "loop", name |-> text_layer]
    ELSE text_layer_of(m, m[text_layer].base, steps + 1)

TextRaise == [end |-> "raise", text |-> <<>>]
TextLoop == [end |-> "loop", text |-> <<>>]
TextReturn(t) == [end |-> "return", text |-> t]

\* the strings yielded (end = "return"), an exception, raised by the call or by
\* the generator it returns (end = "raise"), or a call that never returns
text_for_layer(m, l, layer_name) ==
    IF layer_name \notin DOMAIN m THEN TextRaise
    ELSE IF m[layer_name].layer_type = "characters" THEN
        (IF layer_name \notin DOMAIN l THEN TextRaise
         ELSE TextReturn([j \in 1..Len(l[layer_name].text) |->
                              <<l[layer_name].text[j]>>]))
    ELSE LET root == text_layer_of(m, layer_name, 0) IN
         IF root.end = "loop" THEN TextLoop
         ELSE IF root.end = "KeyError" THEN TextRaise
         ELSE IF layer_name \notin DOMAIN l THEN TextRaise
         ELSE LET ix == indexes(m, l, layer_name, root.name) IN
              IF ~ix.ok \/ ~ix.typed \/ root.name \notin DOMAIN l THEN TextRaise
              ELSE TextReturn([j \in 1..Len(ix.idx) |->
                       PySlice(l[root.name].text, ix.idx[j][1], ix.idx[j][2])])

(***************************************************************************)
(* The schemas of the documents checked, as Document(meta) receives them.  *)
(***************************************************************************)
Names == {"text", "words", "pos", "up"}

\* text <- words (span) <- pos (seq, enumerated data); words may have a default
SeqSchema(default) ==
    [n \in {"text", "words", "pos"} |->
        IF n = "text" THEN LayerDesc("characters", None, None, None, NoneValue)
        ELSE IF n = "words" THEN LayerDesc("span", "text", None, None, default)
        ELSE LayerDesc("seq", "words", "enum", None, NoneValue)]

\* text <- words (span) <- up (span, div or element, enumerated data)
UpSchema(layer_type) ==
    [n \in {"text", "words", "up"} |->
        IF n = "text" THEN LayerDesc("characters", None, None, None, NoneValue)
        ELSE IF n = "words" THEN LayerDesc("span", "text", None, None, NoneValue)
        ELSE LayerDesc(layer_type, "words", "enum", None, NoneValue)]

(***************************************************************************)
(* The values offered to __setitem__ and add_layers.                       *)
(***************************************************************************)
DataStrs == {"A", "X"}

\* a text of n distinct characters, "a", "ab", ...
Text(n) == [i \in 1..n |-> 96 + i]
Texts == {Text(n) : n \in MaxText - 1..MaxText}

\* the index components offered: negative, first, and past a base of MaxLen elements
OutIdx == MaxLen + 1
Idx == {-1, 0, OutIdx}

\* [[s, s+1], [s+1, s+2], ...], n spans
Tiling(s, n) == [j \in 1..n |-> ListOf(<<IntItem(s + j - 1), IntItem(s + j)>>)]
\* [[0, e]] and [[0, 1, d]]
Single(e) == <<ListOf(<<IntItem(0), IntItem(e)>>)>>
SingleD(d) == <<ListOf(<<IntItem(0), IntItem(1), StrItem(d)>>)>>
\* [s, s+1, ...], n bare integers
Run(s, n) == [j \in 1..n |-> Bare(IntItem(s + j - 1))]
\* [[s, d], [s+1, d], ...]
RunD(s, n, d) == [j \in 1..n |-> ListOf(<<IntItem(s + j - 1), StrItem(d)>>)]
\* [d, d, ...], n bare strings
Strs(d, n) == [j \in 1..n |-> Bare(StrItem(d))]

SpanLists ==
    {Single(e) : e \in 0..OutIdx} \cup {Tiling(-1, 1)}
        \cup {Tiling(0, n) : n \in 2..MaxLen}
SpanDLists == {SingleD(d) : d \in DataStrs}
IntLists == {Run(s, 1) : s \in Idx} \cup {Run(0, n) : n \in 2..MaxLen}
IntDLists ==
    {RunD(s, 1, "A") : s \in Idx} \cup {RunD(0, 1, "X")}
        \cup {RunD(0, n, "A") : n \in 2..MaxLen}
StrLists == {Strs(d, n) : d \in DataStrs, n \in 1..MaxLen}
\* [[0]] and [["A", "A"]]
OddLists ==
    {<<ListOf(<<IntItem(0)>>)>>, <<ListOf(<<StrItem("A"), StrItem("A")>>)>>}

Lists ==
    {<<>>} \cup SpanLists \cup SpanDLists \cup IntLists \cup IntDLists
        \cup StrLists \cup OddLists

Values ==
    {NoneValue} \cup {StrValue(t) : t \in Texts} \cup {ListValue(es) : es \in Lists}

\* the default of words in the schema with a default: [[0, 1]]
WordsDefault == ListValue(Tiling(0, 1))

Schemas ==
    {SeqSchema(NoneValue), SeqSchema(WordsDefault),
     UpSchema("span"), UpSchema("div"), UpSchema("element")}

(***************************************************************************)
(* The document as a state machine: Document(meta) and then any sequence   *)
(* of assignments.  op records the last call and its outcome.              *)
(***************************************************************************)
\* the one value add_layers is given for a layer of each type:
\* "ab..", [[0,1],[1,2],..], ["A","A",..], [0,1,..] and [[0,"A"],[1,"A"],..]
given_value(layer_type) ==
    IF layer_type = "characters" THEN StrValue(Text(MaxText))
    ELSE IF layer_type = "span" THEN ListValue(Tiling(0, MaxLen))
    ELSE IF layer_type = "seq" THEN ListValue(Strs("A", MaxLen))
    ELSE IF layer_type = "div" THEN ListValue(Run(0, MaxLen))
    ELSE ListValue(RunD(0, MaxLen, "A"))

\* the orders in which a set of names can be visited
Orders(S) == {o \in [1..Cardinality(S) -> S] : \A n \in S : \E j \in DOMAIN o : o[j] = n}

NoOp ==
    [kind |-> "init", layer |-> None, ok |-> TRUE, why |-> "", names |-> {},
     passes |-> 0]

Init ==
    /\ meta \in Schemas
    /\ layers = <<>>
    /\ op = NoOp
    /\ docs = <<>>
    /\ digest = <<>>

\* doc[name] = value; a character layer is given a string
SetItem(name, value) ==
    /\ (name \in DOMAIN meta /\ meta[name].layer_type = "characters")
            => value.k = "str"
    /\ LET r == setitem(meta, layers, name, value) IN
        /\ layers' = r.layers
        /\ op' = [kind |-> "setitem", layer |-> name, ok |-> r.ok, why |-> r.why,
                  names |-> {}, passes |-> 0]
    /\ UNCHANGED <<meta, docs, digest>>

\* doc.add_layers({name: value, ...}), its keys visited in the given order
AddLayers(names, order) ==
    /\ \E r \in {add_layers(meta, layers,
                              [n \in names |-> given_value(meta[n].layer_type)],
                              order)} :
        /\ layers' = r.st.layers
        /\ op' = [kind |-> "add_layers", layer |-> r.st.missing,
                  ok |-> r.st.end = "return", why |-> r.st.end,
                  names |-> names, passes |-> r.passes]
    /\ UNCHANGED <<meta, docs, digest>>

Next ==
    \E name \in Names, value \in Values : SetItem(name, value)

Spec == Init /\ [][Next]_vars

(***************************************************************************)
(* The same document with add_layers: assignments prepare the document     *)
(* with the values add_layers is given and with shorter ones.              *)
(***************************************************************************)
ShortValues ==
    {StrValue(Text(MaxText - 1)), ListValue(Tiling(0, MaxLen - 1)),
     ListValue(Strs("A", MaxLen - 1)), ListValue(Run(0, MaxLen - 1)),
     ListValue(RunD(0, MaxLen - 1, "A"))}

SmallValues == {given_value(t) : t \in LayerTypes} \cup ShortValues

NextAdd ==
    \/ \E name \in Names, value \in SmallValues : SetItem(name, value)
    \/ \E names \in SUBSET DOMAIN meta : \E order \in Orders(names) :
           AddLayers(names, order)

SpecAdd == Init /\ [][NextAdd]_vars

(***************************************************************************)
(* The schema of a corpus as a state machine: Corpus() and then any        *)
(* sequence of add_layer_meta calls.                                       *)
(***************************************************************************)
SchemaNames == {"text", "words", "pos"}
TypesGiven == {"characters", "span", "seq", "token"}
BasesGiven == SchemaNames \cup {None, ""}

InitSchema ==
    /\ meta = <<>>
    /\ layers = <<>>
    /\ op = NoOp
    /\ docs = <<>>
    /\ digest = <<>>

\* the data and target arguments of a call: neither, or a link without a target
LinksGiven == {<<None, None>>, <<"link", None>>}

AddLayerMeta(name, layer_type, base, link) ==
    /\ LET r == add_layer_meta(meta, name, layer_type, base, link[1], link[2],
                               NoneValue) IN
        /\ meta' = r.meta
        /\ op' = [kind |-> "add_layer_meta", layer |-> name, ok |-> r.ok,
                  why |-> r.why, names |-> {}, passes |-> 0]
    /\ UNCHANGED <<layers, docs, digest>>

NextSchema ==
    \E name \in SchemaNames \cup {None}, layer_type \in TypesGiven,
       base \in BasesGiven, link \in LinksGiven :
           AddLayerMeta(name, layer_type, base, link)

SpecSchema == InitSchema /\ [][NextSchema]_vars

(***************************************************************************)
(* Properties of document mutation (Spec).                                 *)
(***************************************************************************)
StandoffClasses == {"span", "div", "element"}

\* the layers on the chain of bases of a layer, the layer included
RECURSIVE BaseChain(_, _, _)
BaseChain(m, name, steps) ==
    IF name \notin DOMAIN m \/ steps > Cardinality(DOMAIN m) THEN {}
    ELSE {name} \cup BaseChain(m, m[name].base, steps + 1)

\* C1: every Seq layer of the document has as many values as its base layer
\* has elements, after any sequence of assignments.
C1_SeqLengthEqualsBase ==
    \A n \in DOMAIN layers :
        (layers[n].cls = "seq" /\ meta[n].base \in DOMAIN layers)
            => Len(layers[n].data) = LayerLen(layers[meta[n].base])

C3_ReadsSucceed ==
    \A L \in DOMAIN layers :
        /\ text_for_layer(meta, layers, L).end = "return"
        /\ \A T \in BaseChain(meta, L, 0) : indexes(meta, layers, L, T).ok

\* the index components of one entry of a Span, Div or Element layer
IndexComponents(cls, entry) ==
    IF cls = "span" THEN {entry.items[1].i, entry.items[2].i}
    ELSE {first_idx(entry)}

\* C4: a Span, Div or Element layer with an index component that is negative or
\* beyond the element count of its base is refused, so the layer just assigned
\* has every index component within 0..len(base).
C4_OutOfRangeRefused ==
    (/\ op.kind = "setitem" /\ op.ok
     /\ layers[op.layer].cls \in StandoffClasses
     /\ meta[op.layer].base \in DOMAIN layers)
        => \A j \in 1..Len(layers[op.layer].data) :
              \A i \in IndexComponents(layers[op.layer].cls, layers[op.layer].data[j]) :
                  0 <= i /\ i <= LayerLen(layers[meta[op.layer].base])

\* the data values an entry carries: a Seq entry is its own data value, the
\* other layers carry it after their index components
DataItems(cls, entry) ==
    IF cls = "seq" THEN (IF entry.list THEN {} ELSE {entry.items[1]})
    ELSE IF ~entry.list THEN {}
    ELSE LET first == IF cls = "span" THEN 3 ELSE 2 IN
         {entry.items[j] : j \in first..Len(entry.items)}

\* C5: every data value of a layer whose data is a closed enumeration belongs
\* to the enumeration.
C5_DataInEnumeration ==
    \A n \in DOMAIN layers :
        meta[n].data = "enum"
            => \A j \in 1..Len(layers[n].data) :
                  \A d \in DataItems(layers[n].cls, layers[n].data[j]) :
                      IsStr(d) /\ d.s \in EnumValues

\* C10: for a Seq layer S over a Span layer B over a characters layer T,
\* S.indexes(T) = B.indexes(T) = the pairs stored in B, and text_for_layer(S)
\* yields one string per pair, the characters of T from start to end.
C10_SeqOverSpan ==
    \A S \in DOMAIN layers :
        LET B == meta[S].base
            T == meta[B].base
        IN  (/\ layers[S].cls = "seq"
             /\ B \in DOMAIN layers /\ layers[B].cls = "span"
             /\ T \in DOMAIN layers /\ layers[T].cls = "characters")
            => LET ixS == indexes(meta, layers, S, T)
                   ixB == indexes(meta, layers, B, T)
                   txt == text_for_layer(meta, layers, S)
                   pairs == [j \in 1..Len(layers[B].data) |->
                               <<layers[B].data[j].items[1].i,
                                 layers[B].data[j].items[2].i>>]
               IN  /\ ixS.ok /\ ixB.ok
                   /\ ixS.idx = ixB.idx
                   /\ ixB.idx = pairs
                   /\ txt.end = "return"
                   /\ Len(txt.text) = Len(pairs)
                   /\ \A j \in 1..Len(pairs) :
                        (0 <= pairs[j][1] /\ pairs[j][1] <= pairs[j][2]
                            /\ pairs[j][2] <= Len(layers[T].text))
                        => txt.text[j] =
                             [c \in 1..(pairs[j][2] - pairs[j][1]) |->
                                 layers[T].text[pairs[j][1] + c]]

\* a Seq layer of two values over the spans [0,1], [1,2] of a text
C10_Witness ==
    /\ "pos" \in DOMAIN layers /\ "words" \in DOMAIN layers /\ "text" \in DOMAIN layers
    /\ layers["pos"].cls = "seq" /\ Len(layers["pos"].data) = 2
    /\ layers["words"].data = Tiling(0, 2)
    /\ Len(layers["text"].text) >= 2

(***************************************************************************)
(* Properties of the schema (SpecSchema).                                  *)
(***************************************************************************)
\* C6: add_layer_meta for a type other than characters fails when the base is
\* not a layer already defined (its own name included), and a failed call
\* leaves the schema as it was.
C6_UndefinedBaseRefused ==
    [][op'.kind = "add_layer_meta" =>
          /\ (op'.ok /\ meta'[op'.layer].layer_type # "characters")
                => meta'[op'.layer].base \in DOMAIN meta
          /\ ~op'.ok => meta' = meta]_vars

\* C7: add_layer_meta with a name already defined fails and leaves the schema
\* as it was.
C7_DuplicateNameRefused ==
    [][(op'.kind = "add_layer_meta" /\ op'.layer \in DOMAIN meta)
          => ~op'.ok /\ meta' = meta]_vars

\* a call with a name already defined was refused
C7_Witness ==
    /\ op.kind = "add_layer_meta" /\ ~op.ok /\ op.why = "exists"
    /\ op.layer \in DOMAIN meta

\* C8: following base from any layer of the schema reaches a characters layer
\* (no cycle, no base that is not defined).
C8_BaseChainReachesCharacters ==
    \A n \in DOMAIN meta : text_layer_of(meta, n, 0).end = "found"

(***************************************************************************)
(* Properties of add_layers (SpecAdd).                                     *)
(***************************************************************************)
\* the base of a layer of the map is satisfied: the layer has no base, or its
\* base is in the document, has a default, or is in the map and satisfied
RECURSIVE Satisfied(_, _, _, _, _)
Satisfied(m, l, names, n, steps) ==
    LET base == m[n].base IN
    \/ base = None
    \/ base \in DOMAIN l
    \/ base \in DOMAIN m /\ m[base].default # NoneValue
    \/ /\ base \in names
       /\ steps <= Cardinality(DOMAIN m)
       /\ Satisfied(m, l, names, base, steps + 1)

\* the base of a layer of the map is neither present, defaulted nor in the map
Missing(m, l, names, n) ==
    LET base == m[n].base IN
    /\ base # None
    /\ base \notin DOMAIN l
    /\ base \notin names
    /\ base \in DOMAIN m => m[base].default = NoneValue

\* the number of elements of a value
ValueLen(value) == IF value.k = "str" THEN Len(value.text) ELSE Len(value.entries)

\* the Seq values of the map have the length of the base they are given with:
\* the base of the map or, when the map has none, the base of the document
Fits(m, l, names) ==
    \A n \in names :
        m[n].layer_type = "seq" =>
            ValueLen(given_value("seq")) =
                IF m[n].base \in names
                THEN ValueLen(given_value(m[m[n].base].layer_type))
                ELSE base_layer_len(m, l, n)

\* C9: add_layers adds every layer of a map whose bases are all satisfied (a
\* characters layer has no base; a base is in the document, defaulted, or in
\* the map and satisfied), whatever the order of the keys; and it raises an
\* error naming the base when a base is neither present, defaulted nor in the map.
C9_AddLayersOrderIndependent ==
    [][op'.kind = "add_layers" =>
          /\ (/\ \A n \in op'.names : Satisfied(meta, layers, op'.names, n, 0)
              /\ Fits(meta, layers, op'.names))
                => (op'.ok /\ op'.names \subseteq DOMAIN layers')
          /\ (/\ \E n \in op'.names : Missing(meta, layers, op'.names, n)
              /\ Fits(meta, layers, op'.names))
                => (/\ op'.why = "raise"
                    /\ \E n \in op'.names :
                          /\ Missing(meta, layers, op'.names, n)
                          /\ op'.layer = meta[n].base)]_vars

(***************************************************************************)
(* Properties of Div layers (Spec).                                        *)
(***************************************************************************)
\* the start index of each entry of a Div layer
DivStarts(data) == [j \in 1..Len(data) |-> first_idx(data[j])]

\* C11: for every Div layer D with base B, its entries bare start indexes or
\* start indexes followed by a data payload, D.indexes(B) is the list of integer
\* pairs (start_i, start_{i+1}), the last pair ending at len(B).
C11_DivIndexesOfBase ==
    \A D \in DOMAIN layers :
        LET B == meta[D].base IN
        (layers[D].cls = "div" /\ B \in DOMAIN layers)
            => LET ix == indexes(meta, layers, D, B)
                   starts == DivStarts(layers[D].data)
               IN  /\ ix.ok /\ ix.typed
                   /\ Len(ix.idx) = Len(starts)
                   /\ \A j \in 1..Len(starts) :
                        /\ ix.idx[j][1] = starts[j]
                        /\ ix.idx[j][2] = IF j < Len(starts) THEN starts[j + 1]
                                          ELSE LayerLen(layers[B])

\* the entries of a Span layer are pairs within 0..n, start before end
SpansWithin(data, n) ==
    \A j \in 1..Len(data) :
        /\ 0 <= data[j].items[1].i
        /\ data[j].items[1].i <= data[j].items[2].i
        /\ data[j].items[2].i <= n

\* C12: for a Div layer D over a Span layer B over a characters layer T, all
\* indexes within their bases, the text of each division runs from the first
\* character of its first base element up to the first character of the next
\* division's first base element, and the last one to the end of T.
C12_DivTextOverSpan ==
    \A D \in DOMAIN layers :
        LET B == meta[D].base
            T == meta[B].base
        IN  (/\ layers[D].cls = "div"
             /\ B \in DOMAIN layers /\ layers[B].cls = "span"
             /\ T \in DOMAIN layers /\ layers[T].cls = "characters"
             /\ SpansWithin(layers[B].data, Len(layers[T].text))
             /\ \A j \in 1..Len(layers[D].data) :
                    /\ 0 <= first_idx(layers[D].data[j])
                    /\ first_idx(layers[D].data[j]) < Len(layers[B].data))
            => LET txt == text_for_layer(meta, layers, D)
                   starts == DivStarts(layers[D].data)
                   from(j) == layers[B].data[starts[j] + 1].items[1].i
                   to(j) == IF j < Len(starts) THEN from(j + 1)
                            ELSE Len(layers[T].text)
               IN  /\ txt.end = "return"
                   /\ Len(txt.text) = Len(starts)
                   /\ \A j \in 1..Len(starts) :
                        txt.text[j] =
                            [c \in 1..(IF to(j) > from(j) THEN to(j) - from(j) ELSE 0)
                                |-> layers[T].text[from(j) + c]]

(***************************************************************************)
(* teanga_id_for_doc(ids, **kwargs) of utils.py.  kwargs is a function     *)
(* from field names to values, names and values being character strings.   *)
(* The encoded digest b64encode(sha256(text)) is the value of the function *)
(* d at the hash input: any function, so that digests may share prefixes.  *)
(***************************************************************************)
\* the character "\x00"
NUL == 0
\* the length of the shortest identifier
MinIdLen == 4
\* the length of an encoded digest
CodeLen == 5

\* a < b for Python strings: the order sorted() puts the keys in
StrLess(a, b) ==
    \E i \in 1..(Len(a) + 1) :
        /\ \A j \in 1..(i - 1) : j <= Len(b) /\ a[j] = b[j]
        /\ \/ i = Len(a) + 1 /\ Len(b) >= i
           \/ i <= Len(a) /\ i <= Len(b) /\ a[i] < b[i]

\* sorted(kwargs.keys())
sorted_keys(S) ==
    CHOOSE sq \in [1..Cardinality(S) -> S] :
        \A i, j \in 1..Cardinality(S) : i < j => StrLess(sq[i], sq[j])

\* the loop body without the field name
RECURSIVE hash_values_of(_, _, _)
hash_values_of(kwargs, keys, text) ==
    IF keys = <<>> THEN text
    ELSE hash_values_of(kwargs, Tail(keys),
                        text \o <<NUL>> \o kwargs[Head(keys)] \o <<NUL>>)

\* for key in ...: text += key; text += "\x00"; text += kwargs[key]; text += "\x00"
RECURSIVE hash_text_of(_, _, _)
hash_text_of(kwargs, keys, text) ==
    IF keys = <<>> THEN text
    ELSE hash_text_of(kwargs, Tail(keys),
                      text \o Head(keys) \o <<NUL>> \o kwargs[Head(keys)] \o <<NUL>>)

\* a variant that leaves the field names out of the hash input
hash_text_without_names(kwargs) ==
    hash_values_of(kwargs, sorted_keys(DOMAIN kwargs), <<>>)

\* the string that is hashed
hash_text(kwargs) == hash_text_of(kwargs, sorted_keys(DOMAIN kwargs), <<>>)

\* while code[:n] in ids and n < len(code): n += 1
RECURSIVE prefix_len(_, _, _)
prefix_len(code, ids, n) ==
    IF PySlice(code, 0, n) \in ids /\ n < Len(code)
    THEN prefix_len(code, ids, n + 1)
    ELSE n

\* a variant whose loop stops one character early
id_from_code_short(code, ids) ==
    LET n == prefix_len(code, ids, MinIdLen) IN
    PySlice(code, 0, IF n > MinIdLen THEN n - 1 ELSE n)

\* n = 4; the loop; return code[:n]
id_from_code(code, ids) == PySlice(code, 0, prefix_len(code, ids, MinIdLen))

IdRaise == [ok |-> FALSE, id |-> <<>>]
IdReturn(id) == [ok |-> TRUE, id |-> id]

teanga_id_for_doc(d, ids, kwargs) ==
    IF DOMAIN kwargs = {} THEN IdRaise
    ELSE IdReturn(id_from_code(d[hash_text(kwargs)], ids))

(***************************************************************************)
(* The hash input of two maps of fields (SpecHash).                        *)
(***************************************************************************)
MaxValueLen == 2

\* the field names "a" and "b"
FieldNamesGiven == {<<97>>, <<98>>}
\* "", "b", "bb", .. and two values that hold the character NUL
FieldValuesGiven ==
    {[j \in 1..n |-> 98] : n \in 0..MaxValueLen} \cup {<<NUL>>, <<NUL, 98, NUL>>}

FieldMapsGiven ==
    UNION {[S -> FieldValuesGiven] : S \in SUBSET FieldNamesGiven \ {{}}}

InitHash ==
    /\ meta = <<>>
    /\ layers = <<>>
    /\ docs = <<>>
    /\ digest = <<>>
    /\ \E f, g \in FieldMapsGiven :
          op = [kind |-> "fields", f |-> f, g |-> g, hf |-> <<>>, hg |-> <<>>]

\* the hash input of each of the two maps
HashText ==
    /\ op.kind = "fields"
    /\ op' = [op EXCEPT !.kind = "hash_text", !.hf = hash_text(op.f),
                        !.hg = hash_text(op.g)]
    /\ UNCHANGED <<meta, layers, docs, digest>>

NextHash == HashText

SpecHash == InitHash /\ [][NextHash]_vars

\* no field name and no value of the map holds the character NUL
NulFree(kwargs) ==
    \A k \in DOMAIN kwargs :
        /\ \A i \in 1..Len(k) : k[i] # NUL
        /\ \A i \in 1..Len(kwargs[k]) : kwargs[k][i] # NUL

\* C15 as stated: two different maps of fields never have the same hash input.
C15_HashInputDeterminesFields ==
    (op.kind = "hash_text" /\ op.f # op.g) => op.hf # op.hg

\* C15: two different maps of fields whose names and values hold no NUL
\* character never have the same hash input; in particular the same text under
\* two different field names gives two different hash inputs.
C15_HashInputDeterminesNulFreeFields ==
    (op.kind = "hash_text" /\ op.f # op.g /\ NulFree(op.f) /\ NulFree(op.g))
        => op.hf # op.hg

\* the same text under the names "a" and "b" has been hashed
C15_Witness ==
    /\ op.kind = "hash_text"
    /\ DOMAIN op.f = {<<97>>} /\ DOMAIN op.g = {<<98>>}
    /\ op.f[<<97>>] = op.g[<<98>>] /\ op.f[<<97>>] = <<98>>
    /\ op.hf # op.hg

(***************************************************************************)
(* The documents of a corpus without a database (Corpus._docs): add_doc,   *)
(* update_doc and, on a document of the corpus, Document.__setitem__.      *)
(* A document is its id, its layer map and whether its corpus field is the *)
(* corpus (Document.__init__ takes the corpus as its parameter corpus).    *)
(***************************************************************************)
\* the characters of a layer name
Chars(name) ==
    CASE name = "text" -> <<116, 101, 120, 116>>
      [] name = "corpus_ref" -> <<99, 111, 114, 112, 117, 115, 95, 114, 101, 102>>
      [] OTHER -> <<>>

\* **kwargs, for a map from layer names to texts
kwargs_of(fields) ==
    [k \in {Chars(n) : n \in DOMAIN fields} |->
        fields[CHOOSE n \in DOMAIN fields : Chars(n) = k]]

\* Document(meta, corpus, id, **kwargs): the keys that do not start with "_"
\* go to add_layers, while self.corpus is still None
DocRaise == [ok |-> FALSE, doc |-> <<>>]
DocReturn(id, l, corpus) ==
    [ok |-> TRUE, doc |-> [id |-> id, layers |-> l, corpus |-> corpus]]

new_document(m, corpus, id, given, order) ==
    LET made(r) ==
            IF r.st.end = "return" THEN DocReturn(id, r.st.layers, corpus)
            ELSE DocRaise
    IN  made(add_layers(m, <<>>, given, order))

\* str(corpus), the value the keyword corpus_ref carries into add_layers:
\* "Corpus with N documents and M layers.", written here as "C", N, M
corpus_str(m, ds) ==
    StrValue(<<67, 48 + Cardinality(DOMAIN ds), 48 + Cardinality(DOMAIN m)>>)

CorpusRaised(ds) == [ok |-> FALSE, id |-> <<>>, docs |-> ds]
CorpusStored(ds, id, doc) ==
    [ok |-> TRUE, id |-> id,
     docs |-> [k \in DOMAIN ds \cup {id} |-> IF k = id THEN doc ELSE ds[k]]]

\* doc_id = teanga_id_for_doc(self.doc_ids, **fields);
\* doc = Document(self.meta, id=doc_id, corpus_ref=self, **fields);
\* self._docs[doc_id] = doc
add_doc_fields(m, d, ds, fields, order) ==
    LET given == [n \in DOMAIN fields \cup {"corpus_ref"} |->
                     IF n = "corpus_ref" THEN corpus_str(m, ds)
                     ELSE StrValue(fields[n])]
        stored(tid, r) ==
            IF r.ok THEN CorpusStored(ds, tid.id, r.doc) ELSE CorpusRaised(ds)
        with_id(tid) ==
            IF ~tid.ok \/ "corpus_ref" \in DOMAIN fields THEN CorpusRaised(ds)
            ELSE stored(tid, new_document(m, FALSE, tid.id, given, order))
    IN  with_id(teanga_id_for_doc(d, DOMAIN ds, kwargs_of(fields)))

\* Corpus.add_doc(*args, **kwargs) with texts: args is the positional
\* arguments, kwargs the keyword arguments, order the order of add_layers
add_doc(m, d, ds, args, kwargs, order) ==
    LET char_layers == {n \in DOMAIN m : m[n].layer_type = "characters"} IN
    IF char_layers = {} THEN CorpusRaised(ds)
    ELSE IF Cardinality(char_layers) = 1 THEN
        (IF Len(args) = 1
         THEN add_doc_fields(m, d, ds, [n \in char_layers |-> args[1]], order)
         ELSE IF Cardinality(DOMAIN kwargs) = 1 /\ DOMAIN kwargs = char_layers
         THEN add_doc_fields(m, d, ds, kwargs, order)
         ELSE CorpusRaised(ds))
    ELSE IF DOMAIN kwargs = {} THEN CorpusRaised(ds)
    ELSE IF DOMAIN kwargs \subseteq char_layers
         THEN add_doc_fields(m, d, ds, kwargs, order)
    ELSE CorpusRaised(ds)

\* Corpus.add_doc(doc) with a Document: self._docs[doc.id] = doc
add_doc_object(ds, doc) == CorpusStored(ds, doc.id, doc)

\* Corpus.update_doc(old_id, doc): the old key is deleted, then
\* doc.character_layers() is called; no class of document.py defines that
\* method and __setitem__ passes a dict, so the call ends in AttributeError
update_doc(ds, old_id) ==
    CorpusRaised([k \in DOMAIN ds \ {old_id} |-> ds[k]])

\* doc[name] = value for the document stored under key: the assignment, then
\* self.corpus.update_doc(self.id, data_fields) when the document has a corpus
\* and an id
doc_setitem(m, ds, key, name, value) ==
    LET doc == ds[key]
        updated(set) ==
            IF doc.corpus /\ doc.id # <<>> THEN update_doc(set, doc.id)
            ELSE [ok |-> TRUE, id |-> doc.id, docs |-> set]
        assigned(r) ==
            IF ~r.ok THEN CorpusRaised(ds)
            ELSE updated([ds EXCEPT ![key].layers = r.layers])
    IN  assigned(setitem(m, doc.layers, name, value))

\* doc.add_layers(given) for the document stored under key.  Each self[name] =
\* data of the loop is the assignment of doc_setitem: on a document that has a
\* corpus and an id, the first one that stores a layer goes on to update_doc.
\* That first one is the first name of the order whose base is None or added.
doc_add_layers(m, ds, key, given, order) ==
    LET doc == ds[key]
        added == added_before(m, doc.layers, given)
        ready == {j \in 1..Len(order) :
                     /\ order[j] \in DOMAIN m
                     /\ m[order[j]].base = None \/ m[order[j]].base \in added}
        first == order[CHOOSE j \in ready : \A h \in ready : j <= h]
        done(r) ==
            IF doc.corpus /\ doc.id # <<>> /\ r.st.to_add # DOMAIN given
            THEN update_doc([ds EXCEPT ![key].layers =
                                setitem(m, doc.layers, first, given[first]).layers],
                            doc.id)
            ELSE IF r.st.end = "return"
            THEN [ok |-> TRUE, id |-> doc.id,
                  docs |-> [ds EXCEPT ![key].layers = r.st.layers]]
            ELSE CorpusRaised([ds EXCEPT ![key].layers = r.st.layers])
    IN  done(add_layers(m, doc.layers, given, order))

(***************************************************************************)
(* The corpus as a state machine (SpecCorpus): text_corpus() and then any  *)
(* sequence of calls.                                                      *)
(***************************************************************************)
MaxDocs == 2

\* the schema of text_corpus(): one characters layer, text
TextSchema == [n \in {"text"} |-> LayerDesc("characters", None, None, None, NoneValue)]

\* the texts "a" and "b"
TextsGiven == {<<97>>, <<98>>}
TextFields(t) == [n \in {"text"} |-> t]

\* encoded digests: strings of CodeLen characters "A" or "B" that agree on
\* the characters before the shortest identifier
Codes ==
    {c \in [1..CodeLen -> {65, 66}] : \A i \in 1..(MinIdLen - 1) : c[i] = 65}

\* the digest of every hash input; the one of text "a" is "AA..A"
Digests ==
    {d \in [{hash_text(kwargs_of(TextFields(t))) : t \in TextsGiven} -> Codes] :
        d[hash_text(kwargs_of(TextFields(<<97>>)))] = [i \in 1..CodeLen |-> 65]}

\* the arguments of add_doc: a text, the keyword text, or nothing
CallsGiven ==
    {[args |-> <<t>>, kwargs |-> <<>>] : t \in TextsGiven}
    \cup {[args |-> <<>>, kwargs |-> TextFields(t)] : t \in TextsGiven}
    \cup {[args |-> <<>>, kwargs |-> <<>>]}

InitCorpus ==
    /\ meta = TextSchema
    /\ layers = <<>>
    /\ docs = <<>>
    /\ digest \in Digests
    /\ op = [kind |-> "init", ok |-> TRUE, key |-> <<>>, text |-> <<>>, id |-> <<>>]

\* corpus.add_doc(t), corpus.add_doc(text=t) and corpus.add_doc()
AddDoc(args, kwargs) ==
    /\ Cardinality(DOMAIN docs) < MaxDocs
    /\ \E order \in Orders(DOMAIN kwargs \cup
                           (IF Len(args) = 1 THEN {"text"} ELSE {}) \cup {"corpus_ref"}) :
        \E r \in {add_doc(meta, digest, docs, args, kwargs, order)} :
        /\ docs' = r.docs
        /\ op' = [kind |-> "add_doc", ok |-> r.ok, key |-> <<>>,
                  text |-> IF Len(args) = 1 THEN args[1]
                           ELSE IF DOMAIN kwargs = {} THEN <<>> ELSE kwargs["text"],
                  id |-> r.id]
    /\ UNCHANGED <<meta, layers, digest>>

\* doc = Document(meta, corpus=corpus (or None), id=id, text=t); corpus.add_doc(doc),
\* id being a prefix of a digest
AddDocObject(id, t, corpus) ==
    /\ Cardinality(DOMAIN docs) < MaxDocs
    /\ \E d \in {new_document(meta, corpus, id, [n \in {"text"} |-> StrValue(t)],
                                <<"text">>)} :
        /\ d.ok
        /\ docs' = add_doc_object(docs, d.doc).docs
        /\ op' = [kind |-> "add_doc_object", ok |-> TRUE, key |-> <<>>, text |-> t,
                  id |-> id]
    /\ UNCHANGED <<meta, layers, digest>>

\* corpus.doc_by_id(key)["text"] = t
DocSetItem(key, t) ==
    /\ \E r \in {doc_setitem(meta, docs, key, "text", StrValue(t))} :
        /\ docs' = r.docs
        /\ op' = [kind |-> "doc_setitem", ok |-> r.ok, key |-> key, text |-> t,
                  id |-> docs[key].id]
    /\ UNCHANGED <<meta, layers, digest>>

\* corpus.doc_by_id(key).add_layers({"text": t})
DocAddLayers(key, t) ==
    /\ \E r \in {doc_add_layers(meta, docs, key, [n \in {"text"} |-> StrValue(t)],
                                  <<"text">>)} :
        /\ docs' = r.docs
        /\ op' = [kind |-> "doc_add_layers", ok |-> r.ok, key |-> key, text |-> t,
                  id |-> docs[key].id]
    /\ UNCHANGED <<meta, layers, digest>>

\* teanga_id_for_doc(corpus.doc_ids, text=t)
IdForDoc(t) ==
    /\ \E r \in {teanga_id_for_doc(digest, DOMAIN docs, kwargs_of(TextFields(t)))} :
        op' = [kind |-> "teanga_id_for_doc", ok |-> r.ok, key |-> <<>>, text |-> t,
               id |-> r.id]
    /\ UNCHANGED <<meta, layers, docs, digest>>

NextCorpus ==
    \/ \E call \in CallsGiven : AddDoc(call.args, call.kwargs)
    \/ \E t, u \in TextsGiven, n \in MinIdLen..CodeLen, corpus \in BOOLEAN :
          AddDocObject(PySlice(digest[hash_text(kwargs_of(TextFields(u)))], 0, n),
                       t, corpus)
    \/ \E key \in DOMAIN docs, t \in TextsGiven : DocSetItem(key, t)
    \/ \E key \in DOMAIN docs, t \in TextsGiven : DocAddLayers(key, t)
    \/ \E t \in TextsGiven : IdForDoc(t)

SpecCorpus == InitCorpus /\ [][NextCorpus]_vars

(***************************************************************************)
(* Properties of the identifiers (SpecCorpus).                             *)
(***************************************************************************)
\* the encoded digest of a document whose only field is text
CodeOf(t) == digest[hash_text(kwargs_of(TextFields(t)))]

\* the lengths n >= MinIdLen for which code[:n] is not in ids
FreeLengths(code, ids) ==
    {n \in MinIdLen..Len(code) : SubSeq(code, 1, n) \notin ids}

\* C13: teanga_id_for_doc(ids, fields) returns the shortest prefix of at least 4
\* characters of the encoded digest that is not in ids, or the whole digest when
\* every such prefix is in ids; when the 4-character prefix is in ids the result
\* has at least 5 characters.
C13_ShortestFreePrefix ==
    op.kind = "teanga_id_for_doc" =>
        LET code == CodeOf(op.text)
            free == FreeLengths(code, DOMAIN docs)
        IN  /\ op.ok
            /\ free # {} =>
                 /\ Len(op.id) \in free
                 /\ op.id = SubSeq(code, 1, Len(op.id))
                 /\ \A n \in free : Len(op.id) <= n
            /\ free = {} => op.id = code
            /\ SubSeq(code, 1, MinIdLen) \in DOMAIN docs => Len(op.id) >= MinIdLen + 1

\* the 4-character prefix was taken by a document with another text, and the
\* identifier returned is longer
C13_Witness ==
    /\ op.kind = "teanga_id_for_doc"
    /\ SubSeq(CodeOf(op.text), 1, MinIdLen) \in DOMAIN docs
    /\ docs[SubSeq(CodeOf(op.text), 1, MinIdLen)].layers["text"].text # op.text
    /\ Len(op.id) > MinIdLen

\* C14: every add_doc call with a text stores the document under the identifier
\* derived from its character-layer fields and the identifiers issued before
\* it, and keeps the documents stored before; replaying the calls in order then
\* reproduces every stored identifier.
C14_AddDocStoresDerivedId ==
    [][(op'.kind = "add_doc" /\ op'.text # <<>>) =>
          LET tid == teanga_id_for_doc(digest, DOMAIN docs,
                                       kwargs_of(TextFields(op'.text))).id
          IN  /\ op'.ok
              /\ DOMAIN docs' = DOMAIN docs \cup {tid}
              /\ docs'[tid].id = tid
              /\ docs'[tid].layers["text"].text = op'.text
              /\ \A k \in DOMAIN docs : k # tid => docs'[k] = docs[k]]_vars

\* the document stored under key has the corpus as its corpus and the key is
\* the identifier derived from its text and the other identifiers
ProperDoc(key) ==
    /\ docs[key].corpus
    /\ docs[key].id = key
    /\ key = teanga_id_for_doc(digest, DOMAIN docs \ {key},
                 kwargs_of(TextFields(docs[key].layers["text"].text))).id

\* C17: after the character layer of a document of the corpus is assigned a new
\* text, the id of the document is the identifier derived from the new text and
\* the corpus holds the document under that identifier.
C17_IdFollowsText ==
    [][(op'.kind = "doc_setitem" /\ ProperDoc(op'.key)) =>
          LET new == teanga_id_for_doc(digest, DOMAIN docs \ {op'.key},
                                       kwargs_of(TextFields(op'.text))).id
          IN  /\ op'.ok
              /\ new \in DOMAIN docs'
              /\ docs'[new].id = new
              /\ docs'[new].layers["text"].text = op'.text]_vars

(***************************************************************************)
(* ImmutableCorpus.search(query, **kwargs), _doc_matches and Layer.matches *)
(* for a corpus without a database.  A query map is the sequence of its    *)
(* items in the order of the dict; a value is a string or a map.  An       *)
(* evaluation is "true", "false" (truthy or falsy in Python) or "raise".   *)
(***************************************************************************)
QNone == [k |-> "none", s |-> "", items |-> <<>>]
QStr(x) == [k |-> "str", s |-> x, items |-> <<>>]
QMap(items) == [k |-> "map", s |-> "", items |-> items]
QItem(key, val) == [key |-> key, val |-> val]

\* the characters of a string of a query
Ord(x) ==
    CASE x = "a" -> <<97>> [] x = "b" -> <<98>> [] x = "c" -> <<99>>
      [] x = "A" -> <<65>> [] x = "B" -> <<66>> [] OTHER -> <<>>

\* a data value that is no string (None, a number, a list)
NoData == <<-1>>

\* Layer.text and Layer.data of a layer of a document, as lists; ok is FALSE
\* when the property raises
ListRaise == [ok |-> FALSE, list |-> <<>>]
ListReturn(list) == [ok |-> TRUE, list |-> list]

layer_text(m, l, name) ==
    IF l[name].cls = "characters" THEN ListReturn(<<l[name].text>>)
    ELSE LET listed(t) == IF t.end = "return" THEN ListReturn(t.text) ELSE ListRaise
         IN  listed(text_for_layer(m, l, name))

layer_data(m, l, name) ==
    LET data == l[name].data
        at == IF l[name].cls = "span" THEN 3 ELSE 2
    IN  IF l[name].cls = "characters"
        THEN ListReturn([j \in 1..Len(l[name].text) |-> NoData])
        ELSE IF l[name].cls = "seq"
        THEN ListReturn([j \in 1..Len(data) |->
                            IF data[j].list THEN NoData
                            ELSE IF IsStr(data[j].items[1]) THEN Ord(data[j].items[1].s)
                            ELSE NoData])
        ELSE IF m[name].data = None THEN ListReturn([j \in 1..Len(data) |-> NoData])
        ELSE IF \E j \in 1..Len(data) : ~data[j].list \/ Len(data[j].items) < at
        THEN ListRaise
        ELSE ListReturn([j \in 1..Len(data) |->
                            IF IsStr(data[j].items[at]) THEN Ord(data[j].items[at].s)
                            ELSE NoData])

\* next(layer.matches(value), None) for a string value: the first index i
\* with x == value, x ranging over the text when the layer has no data and over
\* the data otherwise; -1 stands for None
first_match(m, l, name, value) ==
    LET first(hits) ==
            IF hits = {} THEN [ok |-> TRUE, i |-> -1]
            ELSE [ok |-> TRUE, i |-> (CHOOSE j \in hits : \A h \in hits : j <= h) - 1]
        among(xs) ==
            IF ~xs.ok THEN [ok |-> FALSE, i |-> -1]
            ELSE first({j \in 1..Len(xs.list) : xs.list[j] = Ord(value.s)})
    IN  among(IF m[name].data = None THEN layer_text(m, l, name)
              ELSE layer_data(m, l, name))

\* _doc_matches(doc, key, value); all_matches and any_matches are the all()
\* and any() over value.items(), which stop at the first falsy or truthy item
RECURSIVE doc_matches(_, _, _, _)
RECURSIVE all_matches(_, _, _)
RECURSIVE any_matches(_, _, _)

all_matches(m, l, items) ==
    IF items = <<>> THEN "true"
    ELSE LET rest(r) == IF r = "true" THEN all_matches(m, l, Tail(items)) ELSE r
         IN  rest(doc_matches(m, l, Head(items).key, Head(items).val))

any_matches(m, l, items) ==
    IF items = <<>> THEN "false"
    ELSE LET rest(r) == IF r = "false" THEN any_matches(m, l, Tail(items)) ELSE r
         IN  rest(doc_matches(m, l, Head(items).key, Head(items).val))

\* return doc[key].matches(value): the generator returned is truthy
layer_matches(m, l, key, value) ==
    IF key \notin DOMAIN l THEN "raise" ELSE "true"

doc_matches(m, l, key, value) ==
    IF key = "$exists" THEN
        (IF value.k # "str" THEN "raise"
         ELSE IF value.s \in DOMAIN l THEN "true" ELSE "false")
    ELSE IF key = "$and" THEN
        (IF value.k # "map" THEN "raise" ELSE all_matches(m, l, value.items))
    ELSE IF key = "$or" THEN
        (IF value.k # "map" THEN "raise" ELSE any_matches(m, l, value.items))
    ELSE IF key = "$not" THEN
        (IF value.k # "map" THEN "raise" ELSE all_matches(m, l, value.items))
    ELSE IF key \in DOMAIN m THEN layer_matches(m, l, key, value)
    ELSE "raise"

\* all(next(doc[layer].matches(value), None) for layer, value in kwargs.items()),
\* the values being strings: the index 0 and None are falsy
kwargs_match(m, l, items) ==
    LET truth(f) == IF ~f.ok THEN "raise" ELSE IF f.i > 0 THEN "true" ELSE "false"
        one(item) ==
            IF item.key \notin DOMAIN m \/ item.key \notin DOMAIN l \/ item.val.k # "str"
            THEN "raise"
            ELSE truth(first_match(m, l, item.key, item.val))
        first(res, stop) ==
            IF stop = {} THEN "true"
            ELSE res[CHOOSE j \in stop : \A h \in stop : j <= h]
        stopped(res) == first(res, {j \in 1..Len(items) : res[j] # "true"})
    IN  stopped([j \in 1..Len(items) |-> one(items[j])])

SearchRaise == [ok |-> FALSE, ids |-> {}]
SearchReturn(ids) == [ok |-> TRUE, ids |-> ids]

\* list(corpus.search(query)) and list(corpus.search(**kwargs)): the ids
\* yielded, as a set, or the exception raised while the documents are visited
search(m, ds, query, kwargs) ==
    LET visited(of) ==
            IF \E id \in DOMAIN ds : of[id] = "raise" THEN SearchRaise
            ELSE SearchReturn({ds[id].id : id \in {k \in DOMAIN ds : of[k] = "true"}})
    IN  IF kwargs # <<>> /\ query.items # <<>> THEN SearchRaise
        ELSE IF kwargs = <<>> /\ query = QNone
             THEN (IF DOMAIN ds = {} THEN SearchReturn({}) ELSE SearchRaise)
        ELSE visited([id \in DOMAIN ds |->
                         IF kwargs # <<>> THEN kwargs_match(m, ds[id].layers, kwargs)
                         ELSE all_matches(m, ds[id].layers, query.items)])

(***************************************************************************)
(* The searches checked (SpecSearch): a corpus of documents over the       *)
(* schema text <- words <- pos, each with the text "ab", the words "a" and *)
(* "b" and, or not, a pos layer; queries of up to MaxItems items a map.    *)
(***************************************************************************)
MaxItems == 2

SearchSchema == SeqSchema(NoneValue)

DocIds == {<<49>>, <<50>>}

WordsGiven == ListValue(<<ListOf(<<IntItem(0), IntItem(1)>>),
                          ListOf(<<IntItem(1), IntItem(2)>>)>>)

PosGiven ==
    {ListValue(<<Bare(StrItem(x)), Bare(StrItem(y))>>) :
        <<x, y>> \in {<<"A", "A">>, <<"A", "B">>}}

\* the layers handed to Document(meta, id=id, **given)
DocsGiven ==
    {[n \in {"text", "words"} |-> IF n = "text" THEN StrValue(Text(2)) ELSE WordsGiven]}
    \cup {[n \in {"text", "words", "pos"} |->
              IF n = "text" THEN StrValue(Text(2))
              ELSE IF n = "words" THEN WordsGiven ELSE p] : p \in PosGiven}

\* the items of a query: "up" is no layer of the schema
LayerItems ==
    {QItem("pos", QStr("A")), QItem("pos", QStr("B")),
     QItem("words", QStr("b")),
     QItem("up", QStr("A"))}
LeafItems == LayerItems \cup {QItem("$exists", QStr("pos")), QItem("$exists", QStr("up"))}

\* the dicts over a set of items: sequences of items with distinct keys
MapsOver(S) ==
    {q \in UNION {[1..n -> S] : n \in 0..MaxItems} :
        \A i, j \in 1..Len(q) : i # j => q[i].key # q[j].key}

Combinators == {"$and", "$or", "$not"}

QueriesGiven ==
    LET flat == MapsOver(LeafItems)
        one == {<<QItem(c, QMap(q))>> : c \in Combinators, q \in flat \ {<<>>}}
        two == {<<QItem("$not", QMap(q))>> : q \in {r \in one : r[1].key # "$not"}}
    IN  {QMap(q) : q \in flat \cup one \cup two}

KwargsGiven == MapsOver(LayerItems) \ {<<>>}

\* the calls: search(query) and search(**kwargs)
SearchesGiven ==
    {[query |-> q, kwargs |-> <<>>] : q \in QueriesGiven}
    \cup {[query |-> QNone, kwargs |-> k] : k \in KwargsGiven}

InitSearch ==
    /\ meta = SearchSchema
    /\ layers = <<>>
    /\ docs = <<>>
    /\ digest = <<>>
    /\ op = [kind |-> "init", ok |-> TRUE, query |-> QNone, kwargs |-> <<>>, ids |-> {}]

\* doc = Document(meta, id=id, **given); corpus.add_doc(doc)
NewDoc(id, given) ==
    /\ \E order \in Orders(DOMAIN given) :
        \E d \in {new_document(meta, FALSE, id, given, order)} :
            /\ d.ok
            /\ docs' = add_doc_object(docs, d.doc).docs
    /\ op' = [kind |-> "add_doc", ok |-> TRUE, query |-> QNone, kwargs |-> <<>>,
              ids |-> {id}]
    /\ UNCHANGED <<meta, layers, digest>>

\* list(corpus.search(query)) and list(corpus.search(**kwargs))
Search(query, kwargs) ==
    /\ \E r \in {search(meta, docs, query, kwargs)} :
        op' = [kind |-> "search", ok |-> r.ok, query |-> query, kwargs |-> kwargs,
               ids |-> r.ids]
    /\ UNCHANGED <<meta, layers, docs, digest>>

NextSearch ==
    \/ \E id \in DocIds, given \in DocsGiven : NewDoc(id, given)
    \/ \E call \in SearchesGiven : Search(call.query, call.kwargs)

SpecSearch == InitSearch /\ [][NextSearch]_vars

(***************************************************************************)
(* Properties of search (SpecSearch).                                      *)
(***************************************************************************)
\* the condition of a key of a query for a document, as a boolean: a layer key
\* holds when some annotation of the layer satisfies the value, $exists when
\* the document has the layer, $and when every item holds, $or when some item
\* holds, $not when its map (the conjunction of its items) does not hold
RECURSIVE Holds(_, _, _, _)
Holds(m, l, key, value) ==
    IF key = "$exists" THEN value.s \in DOMAIN l
    ELSE IF key = "$and" THEN
        \A j \in 1..Len(value.items) :
            Holds(m, l, value.items[j].key, value.items[j].val)
    ELSE IF key = "$or" THEN
        \E j \in 1..Len(value.items) :
            Holds(m, l, value.items[j].key, value.items[j].val)
    ELSE IF key = "$not" THEN
        ~(\A j \in 1..Len(value.items) :
            Holds(m, l, value.items[j].key, value.items[j].val))
    ELSE /\ key \in DOMAIN m
         /\ key \in DOMAIN l
         /\ LET f == first_match(m, l, key, value) IN f.ok /\ f.i >= 0

\* the keys of a query at every depth that are no operators
RECURSIVE LayerKeys(_)
LayerKeys(items) ==
    IF items = <<>> THEN {}
    ELSE LET it == Head(items) IN
         (IF it.key \in Combinators THEN LayerKeys(it.val.items)
          ELSE IF it.key = "$exists" THEN {}
          ELSE {it.key})
         \cup LayerKeys(Tail(items))

\* the leaves of a query are all $exists conditions
ExistsOnly(items) == LayerKeys(items) = {}

\* the ids of the documents for which every item of the map holds
Matching(m, ds, items) ==
    {ds[k].id : k \in {k \in DOMAIN ds :
        \A j \in 1..Len(items) : Holds(m, ds[k].layers, items[j].key, items[j].val)}}

\* C18: a search with a query map whose keys are layers of the schema completes
\* and yields exactly the ids of the documents in which, for every key, at
\* least one annotation of that layer satisfies the key's value.
C18_MapSearchYieldsMatches ==
    (/\ op.kind = "search"
     /\ op.kwargs = <<>>
     /\ \A j \in 1..Len(op.query.items) : op.query.items[j].key \in DOMAIN meta)
    => /\ op.ok
       /\ op.ids = Matching(meta, docs, op.query.items)

\* C19: a search whose query combines $exists conditions with $and, $or and
\* $not yields exactly the documents for which the combination holds as a
\* boolean formula: $and iff all, $or iff some, $not iff not.
C19_CombinatorsAreBoolean ==
    (/\ op.kind = "search"
     /\ op.kwargs = <<>>
     /\ op.query.items # <<>>
     /\ \A j \in 1..Len(op.query.items) : op.query.items[j].key \in Combinators
     /\ ExistsOnly(op.query.items))
    => /\ op.ok
       /\ op.ids = Matching(meta, docs, op.query.items)

\* C20: a search whose query, as a map or as keywords, has a key at any depth
\* that is no layer of the schema ends in an error, whatever the corpus holds.
C20_UndefinedLayerRaises ==
    (/\ op.kind = "search"
     /\ \E key \in LayerKeys(op.query.items) \cup LayerKeys(op.kwargs) :
            key \notin DOMAIN meta)
    => ~op.ok

(***************************************************************************)
(* The loaders of a serialized corpus: _corpus_hook, the object hook of    *)
(* read_json and read_yaml, and CorpusStream.__next__.  A file is its      *)
(* documents in the order of the file, each a key and a text, and whether  *)
(* it has an _order key, which then lists the keys of the documents and    *)
(* precedes them.                                                          *)
(***************************************************************************)
FileKeys(file) == [i \in 1..Len(file.entries) |-> file.entries[i].key]

Range(seq) == {seq[i] : i \in 1..Len(seq)}

\* Document(c.meta, id=doc_id, corpus_ref=c, text=t)
hook_document(m, ds, entry) ==
    new_document(m, FALSE, entry.key,
                 [n \in {"corpus_ref", "text"} |->
                     IF n = "corpus_ref" THEN corpus_str(m, ds) ELSE StrValue(entry.text)],
                 <<"corpus_ref", "text">>)

\* for doc_id in dct["_order"]: c._docs[doc_id] = Document(...)
RECURSIVE hook_order(_, _, _)
hook_order(m, entries, ds) ==
    IF entries = <<>> THEN [ok |-> TRUE, docs |-> ds]
    ELSE LET made(doc) ==
                 IF ~doc.ok THEN [ok |-> FALSE, docs |-> <<>>]
                 ELSE hook_order(m, Tail(entries),
                                 CorpusStored(ds, Head(entries).key, doc.doc).docs)
         IN  made(hook_document(m, ds, Head(entries)))

\* for doc_id, value in dct.items(): the document, its text fields, the
\* identifier of the text fields among c.doc_ids, the comparison, the store
RECURSIVE hook_items(_, _, _, _)
hook_items(m, d, entries, ds) ==
    IF entries = <<>> THEN [ok |-> TRUE, docs |-> ds]
    ELSE LET made(doc, tid) ==
                 IF ~doc.ok \/ ~tid.ok \/ tid.id # Head(entries).key
                 THEN [ok |-> FALSE, docs |-> <<>>]
                 ELSE hook_items(m, d, Tail(entries),
                                 CorpusStored(ds, Head(entries).key, doc.doc).docs)
         IN  made(hook_document(m, ds, Head(entries)),
                  teanga_id_for_doc(d, DOMAIN ds,
                                    kwargs_of(TextFields(Head(entries).text))))

\* _corpus_hook(dct): the documents of the corpus returned, or an exception
corpus_hook(m, d, file) ==
    IF file.order THEN hook_order(m, file.entries, <<>>)
    ELSE hook_items(m, d, file.entries, <<>>)

\* CorpusStream.__next__ on the document entry: the document, the identifier
\* of its string fields among self.doc_ids, the append, the comparison
stream_next(m, d, doc_ids, entry) ==
    LET made(doc, tid) ==
            IF ~doc.ok \/ ~tid.ok THEN [ok |-> FALSE, doc_ids |-> doc_ids]
            ELSE [ok |-> tid.id = entry.key, doc_ids |-> Append(doc_ids, entry.key)]
    IN  made(new_document(m, FALSE, entry.key,
                          [n \in {"text"} |-> StrValue(entry.text)], <<"text">>),
             teanga_id_for_doc(d, Range(doc_ids), kwargs_of(TextFields(entry.text))))

(***************************************************************************)
(* The loads checked (SpecLoad): files of up to MaxDocs documents whose    *)
(* keys are prefixes of the digests of the texts given, over the schema of *)
(* text_corpus() and over one that also has a characters layer corpus_ref. *)
(***************************************************************************)
RefSchema ==
    [n \in {"text", "corpus_ref"} |-> LayerDesc("characters", None, None, None, NoneValue)]

KeysGiven(d) ==
    {PySlice(d[hash_text(kwargs_of(TextFields(u)))], 0, n) :
        u \in TextsGiven, n \in MinIdLen..CodeLen}

FilesGiven(d) ==
    LET entry == [key : KeysGiven(d), text : TextsGiven]
        lists == {es \in UNION {[1..n -> entry] : n \in 1..MaxDocs} :
                     \A i, j \in 1..Len(es) : i # j => es[i].key # es[j].key}
    IN  [order : BOOLEAN, entries : lists]

NoFile == [order |-> FALSE, entries |-> <<>>]

InitLoad ==
    /\ meta \in {TextSchema, RefSchema}
    /\ layers = <<>>
    /\ docs = <<>>
    /\ digest \in Digests
    /\ op = [kind |-> "init", ok |-> TRUE, file |-> NoFile, pos |-> 0,
             doc_ids |-> <<>>]

\* corpus = json.loads(file, object_hook=_corpus_hook)
LoadHook(file) ==
    /\ \E r \in {corpus_hook(meta, digest, file)} :
        /\ docs' = r.docs
        /\ op' = [kind |-> "hook", ok |-> r.ok, file |-> file,
                  pos |-> Len(file.entries), doc_ids |-> <<>>]
    /\ UNCHANGED <<meta, layers, digest>>

\* stream = CorpusStream(file), no corpus being held
Parse(file) ==
    /\ op' = [kind |-> "parse", ok |-> TRUE, file |-> file, pos |-> 0,
              doc_ids |-> <<>>]
    /\ docs' = <<>>
    /\ UNCHANGED <<meta, layers, digest>>

\* next(stream), while the stream has documents: the first call reads _order
StreamNext ==
    /\ op.kind \in {"parse", "next"}
    /\ op.pos < Len(op.file.entries)
    /\ \E r \in {stream_next(meta, digest,
                               IF op.pos = 0 /\ op.file.order THEN FileKeys(op.file)
                               ELSE op.doc_ids,
                               op.file.entries[op.pos + 1])} :
        op' = [kind |-> "next", ok |-> r.ok, file |-> op.file,
                  pos |-> op.pos + 1, doc_ids |-> r.doc_ids]
    /\ UNCHANGED <<meta, layers, docs, digest>>

NextLoad ==
    \/ \E file \in FilesGiven(digest) : LoadHook(file) \/ Parse(file)
    \/ StreamNext

SpecLoad == InitLoad /\ [][NextLoad]_vars

\* the identifier of the i-th document of a file, derived from its text and
\* the keys of the documents before it
Recomputed(d, file, i) ==
    id_from_code(d[hash_text(kwargs_of(TextFields(file.entries[i].text)))],
                 {file.entries[j].key : j \in 1..(i - 1)})

\* C16: no loader accepts a document whose key differs from the identifier
\* recomputed from its text and the keys before it: the hook raises and returns
\* no corpus when the file has such a document, with an _order key or without,
\* and next(stream) raises on such a document.
C16_LoadersRefuseMismatch ==
    /\ (/\ op.kind = "hook"
        /\ \E i \in 1..Len(op.file.entries) :
               op.file.entries[i].key # Recomputed(digest, op.file, i))
       => ~op.ok /\ docs = <<>>
    /\ (/\ op.kind = "next"
        /\ op.file.entries[op.pos].key # Recomputed(digest, op.file, op.pos))
       => ~op.ok

\* C21: a search with keyword arguments whose layers are layers of the schema
\* and of every document completes and yields exactly the ids of the documents
\* in which, for every keyword, some annotation of the layer satisfies the
\* value, at position 0 or later.
C21_KwargsSearchYieldsMatches ==
    (/\ op.kind = "search"
     /\ op.kwargs # <<>>
     /\ \A j \in 1..Len(op.kwargs) :
            /\ op.kwargs[j].key \in DOMAIN meta
            /\ \A k \in DOMAIN docs : op.kwargs[j].key \in DOMAIN docs[k].layers)
    => /\ op.ok
       /\ op.ids = Matching(meta, docs, op.kwargs)

(***************************************************************************)
(* Properties of add_layers on the documents of a corpus (SpecCorpus).     *)
(***************************************************************************)
\* C22: add_layers called on a document with a map whose layers the document
\* already has, with the same values, raises no error and leaves the document
\* where it was, with every layer as before.
C22_AddLayersIdempotent ==
    [][(/\ op'.kind = "doc_add_layers"
        /\ docs[op'.key].layers = [n \in {"text"} |-> CharacterLayer(op'.text)])
       => /\ op'.ok
          /\ op'.key \in DOMAIN docs'
          /\ docs'[op'.key].layers = docs[op'.key].layers]_vars

(***************************************************************************)
(* Properties of link layers in the schema (SpecSchema).                   *)
(***************************************************************************)
\* C23: after add_layer_meta has defined a layer with data "link" and no
\* target, the descriptor stored in the schema has its target equal to the
\* layer's base.
C23_LinkTargetDefaultsToBase ==
    [][\A n \in DOMAIN meta' \ DOMAIN meta :
          (meta'[n].data = "link" /\ op'.kind = "add_layer_meta" /\ op'.ok)
              => meta'[n].target = meta'[n].base]_vars

(***************************************************************************)
(* find_spans of utils.py: the spans of a list of tokens in a text.        *)
(* Positions are Python's: text[i:] starts at the character i + 1 of the   *)
(* sequence.                                                               *)
(***************************************************************************)
\* text[i:].startswith(token)
startswith(text, i, token) ==
    /\ i + Len(token) <= Len(text)
    /\ \A k \in 1..Len(token) : text[i + k] = token[k]

\* the while loop of find_spans and what follows it; tokens[tk_idx] raises
\* IndexError when tk_idx has reached len(tokens)
RECURSIVE find_loop(_, _, _, _, _)
find_loop(tokens, text, i, tk_idx, spans) ==
    IF i < Len(text) /\ tk_idx < Len(text)
    THEN IF tk_idx >= Len(tokens)
         THEN [end |-> "IndexError", spans |-> spans]
         ELSE IF startswith(text, i, tokens[tk_idx + 1])
         THEN find_loop(tokens, text, i + Len(tokens[tk_idx + 1]), tk_idx + 1,
                        Append(spans, <<i, i + Len(tokens[tk_idx + 1])>>))
         ELSE find_loop(tokens, text, i + 1, tk_idx, spans)
    ELSE IF tk_idx < Len(tokens)
    THEN [end |-> "ValueError", spans |-> spans]
    ELSE [end |-> "return", spans |-> spans]

find_spans(tokens, text) == find_loop(tokens, text, 0, 0, <<>>)

(***************************************************************************)
(* find_spans as a state machine: a token list and a text are chosen, then *)
(* find_spans is called on them.                                           *)
(***************************************************************************)
MaxTokens == 2
MaxTokenLen == 2
MaxSpanText == 3

Letters == {97, 98}
StringsUpTo(n) == UNION {[1..k -> Letters] : k \in 0..n}
TokenLists == UNION {[1..k -> StringsUpTo(MaxTokenLen)] : k \in 0..MaxTokens}

InitSpans ==
    /\ meta = <<>>
    /\ layers = <<>>
    /\ docs = <<>>
    /\ digest = <<>>
    /\ \E tokens \in TokenLists, text \in StringsUpTo(MaxSpanText) :
          op = [kind |-> "tokens", tokens |-> tokens, text |-> text,
                end |-> "", spans |-> <<>>]

FindSpans ==
    /\ op.kind = "tokens"
    /\ \E r \in {find_spans(op.tokens, op.text)} :
          op' = [op EXCEPT !.kind = "find_spans", !.end = r.end,
                           !.spans = r.spans]
    /\ UNCHANGED <<meta, layers, docs, digest>>

NextSpans == FindSpans

SpecSpans == InitSpans /\ [][NextSpans]_vars

(***************************************************************************)
(* Properties of find_spans (SpecSpans).                                   *)
(***************************************************************************)
\* the tokens from the k-th on occur in the text in order, without overlap,
\* at or after the position from
RECURSIVE OccurFrom(_, _, _, _)
OccurFrom(tokens, text, k, from) ==
    \/ k > Len(tokens)
    \/ \E s \in from..Len(text) :
          /\ startswith(text, s, tokens[k])
          /\ OccurFrom(tokens, text, k + 1, s + Len(tokens[k]))

\* one span per token, in token order, without overlap, each over its token
SpansOfTokens(tokens, text, spans) ==
    /\ Len(spans) = Len(tokens)
    /\ \A k \in 1..Len(spans) :
          /\ 0 <= spans[k][1] /\ spans[k][2] <= Len(text)
          /\ spans[k][2] - spans[k][1] = Len(tokens[k])
          /\ startswith(text, spans[k][1], tokens[k])
          /\ k > 1 => spans[k - 1][2] <= spans[k][1]

\* C24: for every token list and text, find_spans either returns one span per
\* token, in token order and without overlap, each covering its token in the
\* text, or signals a tokenization mismatch, and then the tokens do not all
\* occur in the text in order; it ends in no other way, also when text remains
\* after the last token.
C24_FindSpansOutcome ==
    op.kind = "find_spans" =>
        \/ op.end = "return" /\ SpansOfTokens(op.tokens, op.text, op.spans)
        \/ op.end = "ValueError" /\ ~OccurFrom(op.tokens, op.text, 1, 0)

(***************************************************************************)
(* Properties of composed index resolution (Spec).                         *)
(***************************************************************************)
\* C25: for a Span layer L with base B and a strict ancestor T of B, with
\* sub = B.indexes(T), L.indexes(T) maps every stored span (a, b) with a <= b,
\* the empty spans a = b included, to (sub[a].start, sub[b-1].end), and reads
\* sub only at positions within 0..len(B)-1.
C25_SpanComposes ==
    \A L \in DOMAIN layers :
        LET B == meta[L].base
            T == meta[B].base
        IN  (/\ layers[L].cls = "span"
             /\ B \in DOMAIN layers /\ layers[B].cls # "characters"
             /\ T \in DOMAIN layers
             /\ indexes(meta, layers, B, T).ok
             /\ \A j \in 1..Len(layers[L].data) : Len(layers[L].data[j].items) >= 2
             /\ SpansWithin(layers[L].data, LayerLen(layers[B])))
            => LET sub == indexes(meta, layers, B, T)
                   ix == indexes(meta, layers, L, T)
                   a(j) == layers[L].data[j].items[1].i
                   b(j) == layers[L].data[j].items[2].i
               IN  /\ ix.ok
                   /\ Len(ix.idx) = Len(layers[L].data)
                   /\ \A j \in 1..Len(layers[L].data) :
                        /\ {a(j), b(j) - 1} \subseteq 0..(LayerLen(layers[B]) - 1)
                        /\ ix.idx[j] = <<sub.idx[a(j) + 1][1], sub.idx[b(j)][2]>>

\* the start index of every entry lies within the n elements of the base
StartsWithin(data, n) ==
    \A j \in 1..Len(data) : 0 <= first_idx(data[j]) /\ first_idx(data[j]) < n

\* C26: for an Element or Div layer L with base B and a strict ancestor T of B,
\* with sub = B.indexes(T), L.indexes(T) maps every entry with start index a to
\* (sub[a].start, sub[a].end).
C26_ElementDivCompose ==
    \A L \in DOMAIN layers :
        LET B == meta[L].base
            T == meta[B].base
        IN  (/\ layers[L].cls \in {"element", "div"}
             /\ B \in DOMAIN layers /\ layers[B].cls # "characters"
             /\ T \in DOMAIN layers
             /\ indexes(meta, layers, B, T).ok
             /\ StartsWithin(layers[L].data, LayerLen(layers[B])))
            => LET sub == indexes(meta, layers, B, T)
                   ix == indexes(meta, layers, L, T)
               IN  /\ ix.ok
                   /\ Len(ix.idx) = Len(layers[L].data)
                   /\ \A j \in 1..Len(layers[L].data) :
                        ix.idx[j] = sub.idx[first_idx(layers[L].data[j]) + 1]

(***************************************************************************)
(* Document.add_layers statement by statement, on the schema of a corpus   *)
(* built with add_layer_meta: the test of the while loop, then one step    *)
(* for each name of the copy of to_add.  Every assignment changes the      *)
(* document at once.  A call runs to its end before the next call starts,  *)
(* and a running call always executes its next statement.                  *)
(***************************************************************************)
LoopNames == {"text", "words"}
LoopTypes == {"characters", "span"}
LoopBases == {None, "text", "words"}

\* to_add.copy(), in the order in which the for loop visits it
RECURSIVE copy_of(_, _)
copy_of(to_add, order) ==
    IF order = <<>> THEN <<>>
    ELSE IF Head(order) \in to_add
         THEN <<Head(order)>> \o copy_of(to_add, Tail(order))
         ELSE copy_of(to_add, Tail(order))

Ended(end, missing, names) ==
    [kind |-> "add_layers", layer |-> missing, ok |-> end = "return",
     why |-> end, names |-> names, passes |-> 0]

LoopMeta(name, layer_type, base) ==
    /\ op.kind # "adding"
    /\ \E r \in {add_layer_meta(meta, name, layer_type, base, None, None,
                                NoneValue)} :
          /\ meta' = r.meta
          /\ op' = [kind |-> "add_layer_meta", layer |-> name, ok |-> r.ok,
                    why |-> r.why, names |-> {}, passes |-> 0]
    /\ UNCHANGED <<layers, docs, digest>>

\* doc.add_layers(given) is entered: added and to_add are set up
CallAddLayers(names, order) ==
    /\ op.kind # "adding"
    /\ LET given == [n \in names |-> given_value(meta[n].layer_type)] IN
       op' = [kind |-> "adding", pc |-> "while", todo |-> <<>>, order |-> order,
              given |-> given,
              st |-> AddState(layers, added_before(meta, layers, given), names,
                              "run", None)]
    /\ UNCHANGED <<meta, layers, docs, digest>>

\* while len(to_add) > 0
While ==
    /\ op.kind = "adding" /\ op.pc = "while"
    /\ IF op.st.to_add = {}
       THEN op' = Ended("return", None, DOMAIN op.given)
       ELSE op' = [op EXCEPT !.pc = "for",
                             !.todo = copy_of(op.st.to_add, op.order)]
    /\ UNCHANGED <<meta, layers, docs, digest>>

\* the body of the for loop for the next name of the copy, or its end
For ==
    /\ op.kind = "adding" /\ op.pc = "for"
    /\ IF op.todo = <<>>
       THEN /\ op' = [op EXCEPT !.pc = "while"]
            /\ UNCHANGED layers
       ELSE \E after \in {add_one(meta, op.given, op.st, Head(op.todo))} :
              /\ layers' = after.layers
              /\ IF after.end = "raise"
                 THEN op' = Ended("raise", after.missing, DOMAIN op.given)
                 ELSE op' = [op EXCEPT !.st = after, !.todo = Tail(op.todo)]
    /\ UNCHANGED <<meta, docs, digest>>

NextPasses ==
    \/ \E name \in LoopNames, layer_type \in LoopTypes, base \in LoopBases :
          LoopMeta(name, layer_type, base)
    \/ \E names \in SUBSET DOMAIN meta : \E order \in Orders(names) :
          CallAddLayers(names, order)
    \/ While
    \/ For

SpecPasses ==
    InitSchema /\ [][NextPasses]_vars /\ WF_vars(While) /\ WF_vars(For)

(***************************************************************************)
(* Properties of add_layers as a loop (SpecPasses).                        *)
(***************************************************************************)
\* C27: add_layers terminates for every schema that add_layer_meta accepts and
\* every input map: a call that has been entered comes to its end, by returning
\* with every layer of the map added or by raising an error, also when the
\* layers of the map depend on each other in a cycle through their bases.
C27_AddLayersTerminates ==
    (op.kind = "adding") ~> (op.kind = "add_layers")

(***************************************************************************)
(* Properties of add_layers as one call (SpecAdd).                         *)
(***************************************************************************)
\* C28: add_layers is all-or-nothing: when it raises, for a layer whose base is
\* missing or for a value that validation rejects, none of the layers of its
\* map has been added and the layer map of the document is the one before the
\* call.
C28_AddLayersAllOrNothing ==
    [][(op'.kind = "add_layers" /\ op'.why = "raise") => layers' = layers]_vars

(***************************************************************************)
(* Documents whose references are all in range: a text, words that are any *)
(* spans within the text, and a layer above the words.  Each layer is      *)
(* assigned with __setitem__.                                              *)
(***************************************************************************)
\* [s, e] and [s, e, "A"]
SpanEntry(s, e) == ListOf(<<IntItem(s), IntItem(e)>>)
SpanDEntry(s, e) == ListOf(<<IntItem(s), IntItem(e), StrItem("A")>>)

\* the spans (s, e) with 0 <= s <= e <= n
SpansIn(n) == {p \in (0..n) \X (0..n) : p[1] <= p[2]}

\* the lists of up to MaxLen spans within the text
WordsInRange ==
    UNION {{[j \in 1..k |-> SpanEntry(ps[j][1], ps[j][2])] :
                ps \in [1..k -> SpansIn(MaxText)]} : k \in 0..MaxLen}

\* one span, non-decreasing starts, one element, over up to MaxLen words, and
\* the values of a Seq layer
UpInRange ==
    {<<SpanDEntry(p[1], p[2])>> : p \in SpansIn(MaxLen)}
        \cup {Run(s, 1) : s \in 0..MaxLen - 1}
        \cup {Run(0, n) : n \in 2..MaxLen}
        \cup {RunD(s, 1, "A") : s \in 0..MaxLen - 1}
        \cup {Strs("A", n) : n \in 1..MaxLen}

InitRanges ==
    /\ meta \in {SeqSchema(NoneValue), UpSchema("span"), UpSchema("div"),
                 UpSchema("element")}
    /\ layers = <<>>
    /\ op = NoOp
    /\ docs = <<>>
    /\ digest = <<>>

NextRanges ==
    \E name \in DOMAIN meta :
        \E value \in IF name = "text" THEN {StrValue(Text(MaxText))}
                     ELSE IF name = "words"
                     THEN {ListValue(es) : es \in WordsInRange}
                     ELSE {ListValue(es) : es \in UpInRange} :
            SetItem(name, value)

SpecRanges == InitRanges /\ [][NextRanges]_vars

(***************************************************************************)
(* Properties of the ranges that index resolution returns (SpecRanges).    *)
(***************************************************************************)
\* every Span entry has 0 <= start <= end <= len(base), every Element index and
\* Div start is below len(base), Div starts are non-decreasing
InRange(m, l) ==
    \A n \in DOMAIN l :
        (l[n].cls \in StandoffClasses /\ m[n].base \in DOMAIN l)
            => IF l[n].cls = "span"
               THEN SpansWithin(l[n].data, LayerLen(l[m[n].base]))
               ELSE /\ StartsWithin(l[n].data, LayerLen(l[m[n].base]))
                    /\ l[n].cls = "div"
                         => \A j \in 2..Len(l[n].data) :
                               first_idx(l[n].data[j - 1]) <= first_idx(l[n].data[j])

\* C29: in a document whose stored references are all in range, every range
\* (s, e) that L.indexes(T) returns, for any layer L and any ancestor T of L,
\* satisfies 0 <= s <= e <= len(T).
C29_RangesWithinTarget ==
    InRange(meta, layers) =>
        \A L \in DOMAIN layers :
            BaseChain(meta, L, 0) \subseteq DOMAIN layers =>
                \A T \in BaseChain(meta, L, 0) :
                    LET ix == indexes(meta, layers, L, T) IN
                    ix.ok =>
                        /\ ix.typed
                        /\ \A j \in 1..Len(ix.idx) :
                              /\ 0 <= ix.idx[j][1]
                              /\ ix.idx[j][1] <= ix.idx[j][2]
                              /\ ix.idx[j][2] <= LayerLen(layers[T])

(***************************************************************************)
(* Transformed corpora (transforms.py).  A view of a corpus is the list of *)
(* the TransformedCorpus objects wrapped around it, the innermost first;   *)
(* each holds its _transform, a map from layer names to functions.  A      *)
(* function is the list of the functions it applies, the first one first:  *)
(* "f" appends the character f, "g" the character g, "upper" and "lower"   *)
(* change the case of every letter.                                        *)
(***************************************************************************)
upper_char(c) == IF 97 <= c /\ c <= 122 THEN c - 32 ELSE c
lower_char(c) == IF 65 <= c /\ c <= 90 THEN c + 32 ELSE c

apply_one(fn, x) ==
    IF fn = "f" THEN Append(x, 102)
    ELSE IF fn = "g" THEN Append(x, 103)
    ELSE IF fn = "upper" THEN [i \in 1..Len(x) |-> upper_char(x[i])]
    ELSE [i \in 1..Len(x) |-> lower_char(x[i])]

RECURSIVE apply_all(_, _)
apply_all(fns, x) ==
    IF fns = <<>> THEN x ELSE apply_all(Tail(fns), apply_one(Head(fns), x))

\* TransformedCorpus.transform_doc(doc): a copy of the document with every
\* layer of _transform replaced by its transformation
transform_doc(tr, doc) ==
    [doc EXCEPT !.layers =
        [n \in DOMAIN doc.layers |->
            IF n \in DOMAIN tr
            THEN CharacterLayer(apply_all(tr[n], doc.layers[n].text))
            ELSE doc.layers[n]]]

\* the docs of a view: the documents of the corpus it wraps, each transformed
RECURSIVE view_docs(_, _)
view_docs(ds, chain) ==
    IF chain = <<>> THEN ds
    ELSE LET wrapped(inner) ==
                 [k \in DOMAIN inner |-> transform_doc(chain[Len(chain)], inner[k])]
         IN  wrapped(view_docs(ds, SubSeq(chain, 1, Len(chain) - 1)))

\* corpus.transform(layer, fn), of a Corpus and of a TransformedCorpus: the
\* new object wraps the object the method was called on
corpus_transform(chain, layer, fn) ==
    IF chain = <<>> THEN <<[n \in {layer} |-> <<fn>>]>>
    ELSE LET old == chain[Len(chain)] IN
         Append(chain,
                [n \in DOMAIN old \cup {layer} |->
                    IF n # layer THEN old[n]
                    ELSE IF layer \in DOMAIN old THEN Append(old[layer], fn)
                    ELSE <<fn>>])

\* corpus.upper() and corpus.lower(): fn on every characters layer
text_layers(m) == {n \in DOMAIN m : m[n].layer_type = "characters"}

corpus_case(m, chain, fn) ==
    IF chain = <<>> THEN <<[n \in text_layers(m) |-> <<fn>>]>>
    ELSE LET old == chain[Len(chain)] IN
         Append(chain,
                [n \in DOMAIN old \cup text_layers(m) |->
                    IF n \notin text_layers(m) THEN old[n]
                    ELSE IF n \in DOMAIN old THEN Append(old[n], fn)
                    ELSE <<fn>>])

(***************************************************************************)
(* A corpus of one document as a state machine: views are made of it by    *)
(* transform, upper and lower, and the documents of the last view are read.*)
(***************************************************************************)
MaxChain == 3

\* the texts "a" and "Ab"
TextsTransformed == {<<97>>, <<65, 98>>}

InitTransform ==
    /\ meta = TextSchema
    /\ layers = <<>>
    /\ digest = <<>>
    /\ \E t \in TextsTransformed :
          docs = [k \in {<<65, 65, 65, 65>>} |->
                     DocReturn(k, [n \in {"text"} |-> CharacterLayer(t)], TRUE).doc]
    /\ op = [kind |-> "corpus", chain |-> <<>>, calls |-> <<>>, out |-> <<>>]

Transform(fn) ==
    /\ Len(op.chain) < MaxChain
    /\ op' = [kind |-> "transform", chain |-> corpus_transform(op.chain, "text", fn),
              calls |-> Append(op.calls, fn), out |-> <<>>]
    /\ UNCHANGED <<meta, layers, docs, digest>>

CaseFold(fn) ==
    /\ Len(op.chain) < MaxChain
    /\ op' = [kind |-> fn, chain |-> corpus_case(meta, op.chain, fn),
              calls |-> Append(op.calls, fn), out |-> <<>>]
    /\ UNCHANGED <<meta, layers, docs, digest>>

\* list(view.docs)
ReadDocs ==
    /\ op.chain # <<>>
    /\ op.kind # "docs"
    /\ \E out \in {view_docs(docs, op.chain)} :
          op' = [op EXCEPT !.kind = "docs", !.out = out]
    /\ UNCHANGED <<meta, layers, docs, digest>>

NextTransform ==
    \/ \E fn \in {"f", "g"} : Transform(fn)
    \/ \E fn \in {"upper", "lower"} : CaseFold(fn)
    \/ ReadDocs

SpecTransform == InitTransform /\ [][NextTransform]_vars

(***************************************************************************)
(* Properties of transformed corpora (SpecTransform).                      *)
(***************************************************************************)
\* C30: chained transformations apply each function exactly once, in call
\* order: every document read from a view made by transform, upper and lower
\* calls has its text equal to the functions called, applied in that order to
\* the text of the document in the underlying corpus, and the documents of the
\* underlying corpus are left as they were.
C30_ChainedTransformsApplyOnce ==
    [][op'.kind = "docs" =>
          /\ docs' = docs
          /\ DOMAIN op'.out = DOMAIN docs
          /\ \A k \in DOMAIN docs :
                op'.out[k].layers["text"].text =
                    apply_all(op'.calls, docs[k].layers["text"].text)]_vars

====
